---- MODULE Spec2Model ----
(***************************************************************************)
(* World engine of the client: WorldManager (chunks, blocks), StateManager *)
(* (interaction state, undo/redo history) and the EventBus that connects   *)
(* them.  Every bus publish is synchronous, so a handler chain runs to     *)
(* completion inside the call that started it; a call is one action.       *)
(***************************************************************************)
EXTENDS Integers, Sequences, FiniteSets, TLC

\* ------------------------------------------------------------------------
\* Program constants
\* ------------------------------------------------------------------------
maxHistory == 50
SIZE == 16
defaultHeight == 2
fixedTimeStep == 1667
maxDeltaTime == 10000
fpsWindow == 100000

\* ------------------------------------------------------------------------
\* Bounds of the exploration
\* ------------------------------------------------------------------------
MaxZ == 0
MaxRecorded == 2
MaxTime == 1
MaxSeq == 52
MaxWideSeq == 2
MaxCalls == 3
MaxSubs == 3
MaxModules == 3
MaxFrames == 2

Layers == 0..MaxZ
Cols == {<<0, 0>>, <<16, 0>>}
DeepCols == {<<0, 0>>}
Tools == {"select", "place", "delete"}
BlockTypes == {"grass", "stone"}
EventNames == {"engine:update", "engine:stopped"}
Callbacks == {"plain", "thrower", "resub"}
ModuleKinds == {"plain", "initFails", "faulty", "stopper"}
Elapsed == {1000, 100000}

\* ------------------------------------------------------------------------
\* Block (a JS object is modelled by the record of its fields; the
\* `properties` bag keeps the set of keys that were passed explicitly)
\* ------------------------------------------------------------------------
NoColor == <<>>
defaultColor == <<0, 255, 136>>

EmptyProps ==
  [keys |-> {}, spriteId |-> "null", color |-> NoColor, solid |-> FALSE,
   visible |-> FALSE, walkable |-> FALSE, interactable |-> FALSE, height |-> 0]

getDefaultColor(type) ==
  CASE type = "grass" -> <<0, 255, 136>>
    [] type = "stone" -> <<160, 160, 255>>
    [] OTHER -> <<128, 128, 128>>

NewBlock(x, y, z, type, p) ==
  LET solid == IF "solid" \in p.keys THEN p.solid ELSE TRUE
  IN [x |-> x, y |-> y, z |-> z, type |-> type, properties |-> p,
      spriteId |-> IF "spriteId" \in p.keys THEN p.spriteId ELSE "null",
      color |-> IF "color" \in p.keys THEN p.color ELSE getDefaultColor(type),
      solid |-> solid,
      visible |-> IF "visible" \in p.keys THEN p.visible ELSE TRUE,
      walkable |-> IF "walkable" \in p.keys THEN p.walkable ELSE ~solid,
      interactable |-> IF "interactable" \in p.keys THEN p.interactable ELSE FALSE]

clone(b) ==
  NewBlock(b.x, b.y, b.z, b.type,
           [b.properties EXCEPT
              !.keys = @ \cup {"spriteId", "color", "solid", "visible",
                               "walkable", "interactable"},
              !.spriteId = b.spriteId, !.color = b.color, !.solid = b.solid,
              !.visible = b.visible, !.walkable = b.walkable,
              !.interactable = b.interactable])

toJSON(b) ==
  [x |-> b.x, y |-> b.y, z |-> b.z, type |-> b.type,
   properties |-> [spriteId |-> b.spriteId, color |-> b.color,
                   solid |-> b.solid, visible |-> b.visible,
                   walkable |-> b.walkable, interactable |-> b.interactable]]

NoBlock == [type |-> "none"]

\* ------------------------------------------------------------------------
\* Maps (JS Map): functions with a finite domain
\* ------------------------------------------------------------------------
EmptyMap == [k \in {} |-> 0]
MapSet(f, k, v) == [j \in DOMAIN f \cup {k} |-> IF j = k THEN v ELSE f[j]]
MapDelete(f, k) == [j \in DOMAIN f \ {k} |-> f[j]]

\* ------------------------------------------------------------------------
\* Chunk
\* ------------------------------------------------------------------------
NewChunk(t) ==
  [blocks |-> EmptyMap, entities |-> EmptyMap, dirty |-> FALSE,
   version |-> t, static |-> FALSE]

ChunkIdAt(worldX, worldY) == <<worldX \div SIZE, worldY \div SIZE>>

worldToLocal(cid, worldX, worldY) ==
  <<worldX - cid[1] * SIZE, worldY - cid[2] * SIZE>>

markDirty(c, t) == [c EXCEPT !.dirty = TRUE, !.version = t]

\* Chunk.setBlock(x, y, z, block); block = NoBlock stands for null.
\* The result carries `threw` for the Error of a static chunk.
ChunkSetBlock(c, x, y, z, block, t) ==
  IF c.static
    THEN [chunk |-> c, threw |-> TRUE]
    ELSE LET c1 == IF block # NoBlock
                     THEN [c EXCEPT !.blocks =
                             MapSet(@, <<x, y, z>>,
                                    [block EXCEPT !.x = x, !.y = y, !.z = z])]
                     ELSE [c EXCEPT !.blocks = MapDelete(@, <<x, y, z>>)]
         IN [chunk |-> markDirty(c1, t), threw |-> FALSE]

\* ------------------------------------------------------------------------
\* The engine state that one call chain reads and writes, as a record m:
\*   chunks, active        WorldManager.chunks / activeChunks
\*   ws                    StateManager.worldState.blocks (world-keyed mirror)
\*   history, historyIndex, flag (isUndoingOrRedoing), tool (currentTool)
\*   events                the events published by the call, in order
\*   threw                 an exception is propagating
\*   caught                EventBus.emit caught a handler's exception
\*   now                   the value Date.now() returns during the call
\*   global, view          WorldManager.globalEntities / viewX, viewY
\*   payloads              the payloads of the chunk and tile events among
\*                         `events`, each with what the publisher could see
\*   undos                 the number of times the call invoked undo()
\* ------------------------------------------------------------------------
Max(S) == CHOOSE a \in S : \A b \in S : b <= a

Keyed ==
  {"tile:requestPlace", "tile:requestDelete", "tile:selected",
   "chunk:loaded", "chunk:saved", "chunk:unloaded"}

Published(m, name, key) ==
  [m EXCEPT !.events = Append(@, name),
            !.payloads = IF name \in Keyed
                           THEN Append(@, [name |-> name, key |-> key])
                           ELSE @]

\* try { callback(...args) } catch (error) { console.error(...) }
Handled(m) ==
  IF m.threw THEN [m EXCEPT !.threw = FALSE, !.caught = TRUE] ELSE m

\* ------------------------------------------------------------------------
\* StateManager: history
\* ------------------------------------------------------------------------
StateGetHighestBlockZ(m, x, y) ==
  LET zs == {k[3] : k \in {j \in DOMAIN m.ws : j[1] = x /\ j[2] = y}}
  IN IF zs = {} THEN -1 ELSE Max(zs)

RecordNoTruncate(m, action) ==
  LET h2 == Append(m.history, action)
  IN IF Len(h2) > maxHistory
       THEN [m EXCEPT !.history = Tail(h2)]
       ELSE [m EXCEPT !.history = h2, !.historyIndex = @ + 1]

RecordDropNewest(m, action) ==
  LET h1 == IF m.historyIndex < Len(m.history) - 1
              THEN SubSeq(m.history, 1, m.historyIndex + 1)
              ELSE m.history
      h2 == Append(h1, action)
  IN IF Len(h2) > maxHistory
       THEN [m EXCEPT !.history = SubSeq(h2, 1, Len(h2) - 1)]
       ELSE [m EXCEPT !.history = h2, !.historyIndex = @ + 1]

recordAction(m, action) ==
  LET h1 == IF m.historyIndex < Len(m.history) - 1
              THEN SubSeq(m.history, 1, m.historyIndex + 1)
              ELSE m.history
      h2 == Append(h1, action)
  IN IF Len(h2) > maxHistory
       THEN [m EXCEPT !.history = Tail(h2)]
       ELSE [m EXCEPT !.history = h2, !.historyIndex = @ + 1]

Data(x, y, z, block) == [x |-> x, y |-> y, z |-> z, block |-> block]

\* handler of block:added
OnBlockAddedUnguarded(m, block, worldX, worldY, z) ==
  recordAction([m EXCEPT !.ws = MapSet(@, <<worldX, worldY, z>>, block)],
               [type |-> "block:placed",
                data |-> Data(worldX, worldY, z, clone(block)),
                undo |-> [type |-> "block:remove",
                          data |-> Data(worldX, worldY, z, NoBlock)]])

OnBlockAdded(m, block, worldX, worldY, z) ==
  LET m1 == [m EXCEPT !.ws = MapSet(@, <<worldX, worldY, z>>, block)]
  IN IF ~m.flag
       THEN recordAction(m1,
              [type |-> "block:placed",
               data |-> Data(worldX, worldY, z, clone(block)),
               undo |-> [type |-> "block:remove",
                         data |-> Data(worldX, worldY, z, NoBlock)]])
       ELSE m1

\* handler of block:removed
OnBlockRemoved(m, block, worldX, worldY, z) ==
  LET m1 == [m EXCEPT !.ws = MapDelete(@, <<worldX, worldY, z>>)]
  IN IF ~m.flag /\ block # NoBlock
       THEN recordAction(m1,
              [type |-> "block:removed",
               data |-> Data(worldX, worldY, z, NoBlock),
               undo |-> [type |-> "block:place",
                         data |-> Data(worldX, worldY, z, clone(block))]])
       ELSE m1

\* ------------------------------------------------------------------------
\* WorldManager
\* ------------------------------------------------------------------------
LocalKey(x, y, z) ==
  LET l == worldToLocal(ChunkIdAt(x, y), x, y) IN <<l[1], l[2], z>>

getBlockAt(m, worldX, worldY, z) ==
  LET cid == ChunkIdAt(worldX, worldY)
  IN IF cid \notin DOMAIN m.chunks
       THEN NoBlock
       ELSE IF LocalKey(worldX, worldY, z) \in DOMAIN m.chunks[cid].blocks
              THEN m.chunks[cid].blocks[LocalKey(worldX, worldY, z)]
              ELSE NoBlock

WorldGetHighestBlockZNoLocal(m, worldX, worldY) ==
  LET cid == ChunkIdAt(worldX, worldY)
  IN IF cid \notin DOMAIN m.chunks
       THEN -1
       ELSE LET zs == {k[3] : k \in {j \in DOMAIN m.chunks[cid].blocks :
                                        j[1] = worldX /\ j[2] = worldY}}
            IN IF zs = {} THEN -1 ELSE Max(zs)

WorldGetHighestBlockZ(m, worldX, worldY) ==
  LET cid == ChunkIdAt(worldX, worldY)
      l == worldToLocal(cid, worldX, worldY)
  IN IF cid \notin DOMAIN m.chunks
       THEN -1
       ELSE LET zs == {k[3] : k \in {j \in DOMAIN m.chunks[cid].blocks :
                                        j[1] = l[1] /\ j[2] = l[2]}}
            IN IF zs = {} THEN -1 ELSE Max(zs)

\* getChunkAt(worldX, worldY, true)
getChunkAtCreate(m, worldX, worldY) ==
  LET cid == ChunkIdAt(worldX, worldY)
  IN IF cid \in DOMAIN m.chunks
       THEN m
       ELSE [m EXCEPT !.chunks = MapSet(@, cid, NewChunk(m.now)),
                      !.active = @ \cup {cid}]

setBlockAt(m, worldX, worldY, z, block) ==
  LET cid == ChunkIdAt(worldX, worldY)
      m1 == getChunkAtCreate(m, worldX, worldY)
      l == worldToLocal(cid, worldX, worldY)
      r == ChunkSetBlock(m1.chunks[cid], l[1], l[2], z, block, m.now)
  IN IF r.threw
       THEN [m1 EXCEPT !.threw = TRUE]
       ELSE Published([m1 EXCEPT !.chunks[cid] = r.chunk],
                      "block:changed", <<worldX, worldY, z>>)

\* the colour placeBlock gives a block at layer z (defaultColor lightened)
Min(a, b) == IF a < b THEN a ELSE b

blockColor(z) ==
  IF z > 0
    THEN LET f == Min(10 + z * 5, 30)
         IN <<Min(255, defaultColor[1] + ((255 - defaultColor[1]) * f) \div 100),
              Min(255, defaultColor[2] + ((255 - defaultColor[2]) * f) \div 100),
              Min(255, defaultColor[3] + ((255 - defaultColor[3]) * f) \div 100)>>
    ELSE defaultColor

DefaultProps(z) ==
  [EmptyProps EXCEPT !.keys = {"color", "height"}, !.color = blockColor(z),
                     !.height = defaultHeight]

placeBlockDeferred(m, x, y, z) ==
  IF getBlockAt(m, x, y, z) # NoBlock
    THEN m
    ELSE LET block == NewBlock(x, y, z, "grass", DefaultProps(z))
             m1 == setBlockAt(m, x, y, z, block)
         IN IF m1.threw
              THEN m1
              ELSE Published(m1, "block:added", <<x, y, z>>)

placeBlock(m, x, y, z) ==
  IF getBlockAt(m, x, y, z) # NoBlock
    THEN m
    ELSE LET block == NewBlock(x, y, z, "grass", DefaultProps(z))
             m1 == setBlockAt(m, x, y, z, block)
         IN IF m1.threw
              THEN m1
              ELSE Handled(OnBlockAdded(
                     Published(m1, "block:added", <<x, y, z>>),
                     getBlockAt(m1, x, y, z), x, y, z))

\* placeBlock(x, y): the parameter z defaults to 0
placeBlockDefaultZ(m, x, y) == placeBlock(m, x, y, 0)

placeBlockExactOverwrite(m, x, y, z, block) ==
  LET newBlock == [clone(block) EXCEPT !.x = x, !.y = y, !.z = z]
      m1 == setBlockAt(m, x, y, z, newBlock)
  IN IF m1.threw
       THEN m1
       ELSE Handled(OnBlockAdded(
              Published(m1, "block:added", <<x, y, z>>),
              getBlockAt(m1, x, y, z), x, y, z))

placeBlockExact(m, x, y, z, block) ==
  IF getBlockAt(m, x, y, z) # NoBlock
    THEN m
    ELSE LET newBlock == [clone(block) EXCEPT !.x = x, !.y = y, !.z = z]
             m1 == setBlockAt(m, x, y, z, newBlock)
         IN IF m1.threw
              THEN m1
              ELSE Handled(OnBlockAdded(
                     Published(m1, "block:added", <<x, y, z>>),
                     getBlockAt(m1, x, y, z), x, y, z))

removeBlock(m, x, y, z) ==
  LET block == getBlockAt(m, x, y, z)
      cid == ChunkIdAt(x, y)
      l == worldToLocal(cid, x, y)
  IN IF block = NoBlock
       THEN m
       ELSE LET r == ChunkSetBlock(m.chunks[cid], l[1], l[2], z, NoBlock, m.now)
            IN IF r.threw
                 THEN [m EXCEPT !.threw = TRUE]
                 ELSE Handled(OnBlockRemoved(
                        Published([m EXCEPT !.chunks[cid] = r.chunk],
                                  "block:removed", <<x, y, z>>),
                        block, x, y, z))

createWorld(m) ==
  Published([m EXCEPT !.chunks = MapSet(EmptyMap, <<0, 0>>, NewChunk(m.now)),
                      !.active = {<<0, 0>>},
                      !.global = EmptyMap,
                      !.view = <<0, 0>>],
            "world:created", <<>>)

\* ------------------------------------------------------------------------
\* Bus requests (EventBus.emit with WorldManager's handler)
\* ------------------------------------------------------------------------
EmitRequestPlace(m, x, y, z) ==
  Handled(placeBlock(Published(m, "tile:requestPlace", <<x, y, z>>), x, y, z))

EmitRequestPlaceExact(m, d) ==
  Handled(placeBlockExact(
            Published(m, "tile:requestPlaceExact", <<d.x, d.y, d.z>>),
            d.x, d.y, d.z, d.block))

EmitRequestDelete(m, x, y, z) ==
  Handled(removeBlock(Published(m, "tile:requestDelete", <<x, y, z>>), x, y, z))

\* ------------------------------------------------------------------------
\* StateManager: clicks, undo, redo
\* ------------------------------------------------------------------------
\* WorldManager's input:mousedown handler runs first (registered first)
handleClick(m, tileX, tileY) ==
  LET block == getBlockAt(m, tileX, tileY, 0)
  IN IF block # NoBlock /\ block.interactable
       THEN Published(m, "block:clicked", <<tileX, tileY>>)
       ELSE m

\* handleTileClick whose delete tool removes the block on the ground layer
handleTileClickGround(m, tileX, tileY) ==
  LET highestZ == StateGetHighestBlockZ(m, tileX, tileY)
      hasAnyBlock == highestZ >= 0
      targetZ == IF hasAnyBlock THEN highestZ + 1 ELSE 0
  IN IF m.tool = "select"
       THEN EmitRequestPlace(m, tileX, tileY, targetZ)
       ELSE IF m.tool = "place"
              THEN EmitRequestPlace(m, tileX, tileY, targetZ)
              ELSE IF m.tool = "delete" /\ hasAnyBlock
                     THEN EmitRequestDelete(m, tileX, tileY, 0)
                     ELSE Published(m, "tile:selected", <<tileX, tileY>>)

handleTileClick(m, tileX, tileY) ==
  LET highestZ == StateGetHighestBlockZ(m, tileX, tileY)
      hasAnyBlock == highestZ >= 0
      targetZ == IF hasAnyBlock THEN highestZ + 1 ELSE 0
  IN IF m.tool = "select"
       THEN EmitRequestPlace(m, tileX, tileY, targetZ)
       ELSE IF m.tool = "place"
              THEN EmitRequestPlace(m, tileX, tileY, targetZ)
              ELSE IF m.tool = "delete" /\ hasAnyBlock
                     THEN EmitRequestDelete(m, tileX, tileY, highestZ)
                     ELSE Published(m, "tile:selected", <<tileX, tileY>>)

handleTileRightClickLowest(m, tileX, tileY) ==
  LET highestZ == StateGetHighestBlockZ(m, tileX, tileY)
  IN IF highestZ >= 0
       THEN EmitRequestDelete(m, tileX, tileY, 0)
       ELSE m

handleTileRightClick(m, tileX, tileY) ==
  LET highestZ == StateGetHighestBlockZ(m, tileX, tileY)
  IN IF highestZ >= 0
       THEN EmitRequestDelete(m, tileX, tileY, highestZ)
       ELSE m

executeUndoActionDefault(m, u) ==
  CASE u.type = "block:place" ->
         EmitRequestPlace(m, u.data.x, u.data.y, u.data.z)
    [] u.type = "block:remove" ->
         EmitRequestDelete(m, u.data.x, u.data.y, u.data.z)
    [] OTHER -> m

executeUndoAction(m, u) ==
  CASE u.type = "block:place" -> EmitRequestPlaceExact(m, u.data)
    [] u.type = "block:remove" ->
         EmitRequestDelete(m, u.data.x, u.data.y, u.data.z)
    [] OTHER -> m

executeRedoAction(m, a) ==
  CASE a.type = "block:placed" -> EmitRequestPlaceExact(m, a.data)
    [] a.type = "block:removed" ->
         EmitRequestDelete(m, a.data.x, a.data.y, a.data.z)
    [] OTHER -> m

\* undo() without its finally block
undoNoFinally(m) ==
  IF m.historyIndex < 0 \/ m.historyIndex >= Len(m.history)
    THEN m
    ELSE LET action == m.history[m.historyIndex + 1]
             m2 == executeUndoAction([m EXCEPT !.flag = TRUE], action.undo)
         IN IF m2.threw
              THEN [m2 EXCEPT !.threw = FALSE]
              ELSE Published([m2 EXCEPT !.historyIndex = @ - 1],
                             "action:undone", <<>>)

undo(m) ==
  IF m.historyIndex < 0 \/ m.historyIndex >= Len(m.history)
    THEN m
    ELSE LET action == m.history[m.historyIndex + 1]
             m2 == executeUndoAction([m EXCEPT !.flag = TRUE], action.undo)
         IN IF m2.threw
              THEN [m2 EXCEPT !.threw = FALSE, !.flag = FALSE]
              ELSE [Published([m2 EXCEPT !.historyIndex = @ - 1],
                              "action:undone", <<>>)
                      EXCEPT !.flag = FALSE]

redoOffByOne(m) ==
  IF m.historyIndex >= Len(m.history)
    THEN m
    ELSE IF m.historyIndex + 1 >= Len(m.history)
           THEN [m EXCEPT !.historyIndex = @ + 1, !.threw = TRUE]
           ELSE LET m1 == [m EXCEPT !.historyIndex = @ + 1, !.flag = TRUE]
                    action == m1.history[m1.historyIndex + 1]
                    m2 == executeRedoAction(m1, action)
                IN [Published(m2, "action:redone", <<>>) EXCEPT !.flag = FALSE]

redo(m) ==
  IF m.historyIndex >= Len(m.history) - 1
    THEN m
    ELSE LET m1 == [m EXCEPT !.historyIndex = @ + 1, !.flag = TRUE]
             action == m1.history[m1.historyIndex + 1]
             m2 == executeRedoAction(m1, action)
         IN IF m2.threw
              THEN [m2 EXCEPT !.threw = FALSE, !.historyIndex = @ - 1,
                              !.flag = FALSE]
              ELSE [Published(m2, "action:redone", <<>>) EXCEPT !.flag = FALSE]

clearHistory(m) == [m EXCEPT !.history = <<>>, !.historyIndex = -1]

onDestroy(m) == [m EXCEPT !.ws = EmptyMap, !.history = <<>>]

setTool(m, t) == Published([m EXCEPT !.tool = t], "tool:changed", <<>>)

\* ------------------------------------------------------------------------
\* EventBus
\* ------------------------------------------------------------------------
\* A JavaScript Set iterates in insertion order and ignores a second add of
\* the same callback: a sequence without repetitions.  A Map entry whose Set
\* is empty does not persist (off deletes it), so "no entry" is <<>>.
NewBus ==
  [events |-> [e \in EventNames |-> <<>>],
   onceEvents |-> [e \in EventNames |-> <<>>]]

Range(s) == {s[i] : i \in DOMAIN s}

SetAdd(s, h) == IF h \in Range(s) THEN s ELSE Append(s, h)

SetDelete(s, h) == SelectSeq(s, LAMBDA x : x # h)

on(b, e, h) == [b EXCEPT !.events[e] = SetAdd(@, h)]

once(b, e, h) == [b EXCEPT !.onceEvents[e] = SetAdd(@, h)]

off(b, e, h) ==
  [b EXCEPT !.events[e] = SetDelete(@, h), !.onceEvents[e] = SetDelete(@, h)]

clear(b, e) == [b EXCEPT !.events[e] = <<>>, !.onceEvents[e] = <<>>]

clearAll(b) == NewBus

listenerCount(b, e) == Len(b.events[e]) + Len(b.onceEvents[e])

\* The callbacks subscribed in the model: "plain" and "other" return,
\* "thrower" throws, "resub" subscribes itself again with once(event, self),
\* "adder" subscribes "plain" with on(event, plain), "swapper" unsubscribes
\* itself with off(event, self) and then subscribes "plain" likewise.
RunCallback(b, e, h) ==
  CASE h = "thrower" -> [bus |-> b, threw |-> TRUE]
    [] h = "resub" -> [bus |-> once(b, e, h), threw |-> FALSE]
    [] h = "adder" -> [bus |-> on(b, e, "plain"), threw |-> FALSE]
    [] h = "swapper" -> [bus |-> on(off(b, e, h), e, "plain"), threw |-> FALSE]
    [] OTHER -> [bus |-> b, threw |-> FALSE]

\* the callback empties the Set of the event's regular listeners: off
\* deletes the Map entry, and a later on makes a new Set
Detaches(b, e, h) == h = "swapper" /\ b.events[e] = <<h>>

\* try { callback(...args) } without the catch
CatchRethrow(d) == d

\* try { callback(...args) } catch (error) { console.error(...) }
Catch(d) == [d EXCEPT !.threw = FALSE]

\* one iteration of a delivery loop; an exception that escaped an earlier
\* iteration has left the loop
Invoke(d, e, h, kind) ==
  IF d.threw THEN d
  ELSE LET r == RunCallback(d.bus, e, h)
       IN Catch([bus |-> r.bus,
                 log |-> Append(d.log, [h |-> h, kind |-> kind]),
                 threw |-> r.threw])

RECURSIVE DeliverAll(_, _, _, _)
DeliverAll(d, e, hs, kind) ==
  IF hs = <<>> THEN d
  ELSE DeliverAll(Invoke(d, e, Head(hs), kind), e, Tail(hs), kind)

\* for (const callback of this.events.get(event)): the loop walks the Set
\* itself, so a callback deleted before its turn is skipped and one added
\* to that Set during the loop gets its turn at the end; `rest` are the
\* members still to visit
RECURSIVE DeliverLive(_, _, _)
\* the rest of the loop once the callback at the head of `rest` has turned
\* d into d1
LiveStep(d, d1, e, rest) ==
  LET before == d.bus.events[e]
      after == d1.bus.events[e]
      kept == SelectSeq(Tail(rest), LAMBDA h : h \in Range(after))
      added == SelectSeq(after, LAMBDA h : h \notin Range(before))
  IN IF d.threw THEN d
     ELSE IF Detaches(d.bus, e, Head(rest)) THEN d1
     ELSE DeliverLive(d1, e, kept \o added)

DeliverLive(d, e, rest) ==
  IF rest = <<>> THEN d
  ELSE CHOOSE out \in {LiveStep(d, d1, e, rest) :
                         d1 \in {Invoke(d, e, Head(rest), "on")}} : TRUE

\* the once listeners stay subscribed while they run
KeepOnce(d, e) == d

\* this.onceEvents.delete(event), before the copied callbacks run
TakeOnce(d, e) == [d EXCEPT !.bus.onceEvents[e] = <<>>]

emit(b, e) ==
  LET d0 == [bus |-> b, log |-> <<>>, threw |-> FALSE]
      d1 == DeliverLive(d0, e, b.events[e])
      callbacks == d1.bus.onceEvents[e]
  IN IF d1.threw \/ callbacks = <<>> THEN d1
     ELSE DeliverAll(TakeOnce(d1, e), e, callbacks, "once")

\* ------------------------------------------------------------------------
\* Module (base class) and GameEngine.  Times are in 1/100 ms.  An engine
\* call is modelled on a record x: the engine and bus as the call has left
\* them so far, the methods and hooks it has invoked (log), the events it
\* has published, the exception travelling up (threw) and the part of an
\* async stop() that waits behind its first await (deferred).
\* ------------------------------------------------------------------------
\* the subclasses registered in the model, by what their hooks do:
\* "plain" hooks return, "initFails" throws in onInitialize, "faulty" throws
\* in onStop and in onDestroy, "stopper" calls engine.stop() in onUpdate,
\* "crashUpdate", "crashFixedUpdate" and "crashLateUpdate" throw in the hook
\* they are named after, "startFails" throws in onStart
NewModule(kind) ==
  [name |-> kind, kind |-> kind, enabled |-> TRUE, initialized |-> FALSE]

NewEngine(mods) ==
  [modules |-> mods, running |-> FALSE, accumulator |-> 0, frameCount |-> 0,
   fps |-> 0, sinceFps |-> 0, animationFrameId |-> 0, pending |-> {},
   nextId |-> 1, starts |-> <<>>]

X(eng, b) ==
  [eng |-> eng, bus |-> b, log |-> <<>>, events |-> <<>>, threw |-> FALSE,
   deferred |-> FALSE, rejected |-> FALSE, stopAt |-> 0, failed |-> 0]

Logged(x, name, hook) ==
  [x EXCEPT !.log = Append(@, [m |-> name, hook |-> hook])]

Names(mods) == [i \in DOMAIN mods |-> mods[i].name]

\* this.eventBus.emit(name); an exception on its way up the call stack
\* passes the statement by
EnginePublish(x, name) ==
  LET x1 == [x EXCEPT !.events = Append(@, name)]
  IN IF x.threw THEN x
     ELSE IF name \in EventNames
     THEN LET d == emit(x.bus, name)
          IN [x1 EXCEPT !.bus = d.bus, !.threw = d.threw]
     ELSE x1

ModuleInitialize(x, i) ==
  LET mod == x.eng.modules[i]
      x1 == Logged(x, mod.name, "onInitialize")
  IN IF mod.initialized THEN [x EXCEPT !.threw = TRUE]
     ELSE IF mod.kind = "initFails" THEN [x1 EXCEPT !.threw = TRUE]
     ELSE [x1 EXCEPT !.eng.modules[i].initialized = TRUE]

ModuleStart(x, i) ==
  LET mod == x.eng.modules[i]
  IN IF ~mod.initialized THEN [x EXCEPT !.threw = TRUE]
     ELSE IF mod.kind = "startFails"
            THEN [Logged(x, mod.name, "onStart") EXCEPT !.threw = TRUE]
     ELSE Logged(x, mod.name, "onStart")

ModuleStop(x, i) ==
  LET mod == x.eng.modules[i]
      x1 == Logged(x, mod.name, "onStop")
  IN IF mod.kind = "faulty" THEN [x1 EXCEPT !.threw = TRUE] ELSE x1

ModuleDestroy(x, i) ==
  LET mod == x.eng.modules[i]
      x1 == Logged(x, mod.name, "onDestroy")
  IN IF mod.kind = "faulty" THEN [x1 EXCEPT !.threw = TRUE]
     ELSE [x1 EXCEPT !.eng.modules[i].initialized = FALSE]

enable(x, i) ==
  Logged([x EXCEPT !.eng.modules[i].enabled = TRUE],
         x.eng.modules[i].name, "onEnable")

disable(x, i) ==
  Logged([x EXCEPT !.eng.modules[i].enabled = FALSE],
         x.eng.modules[i].name, "onDisable")

\* catch (error) { this.logger.error(...) } left out: the error goes on
StopRethrow(x) == x

\* catch (error) { this.logger.error(`Failed to stop module ...`) }
StopCatch(x) == [x EXCEPT !.threw = FALSE]

\* GameEngine.stop() up to its first await: the guard, the cancellation and
\* the call of the last registered module's stop, whose outcome the awaiting
\* stop() sees only once the caller's synchronous code has finished
EngineStopSync(x) ==
  LET aid == x.eng.animationFrameId
      n == Len(x.eng.modules)
      x1 == Logged([x EXCEPT !.eng.running = FALSE,
                             !.eng.pending = @ \ {aid},
                             !.eng.animationFrameId = 0],
                   "engine", "stop")
      x2 == ModuleStop(x1, n)
  IN IF ~x.eng.running THEN x
     ELSE IF n = 0 THEN EnginePublish(x1, "engine:stopped")
     ELSE [x2 EXCEPT !.threw = FALSE, !.rejected = x2.threw,
                     !.deferred = TRUE, !.stopAt = n - 1]

RECURSIVE StopFrom(_, _)
StopFrom(x, i) ==
  IF i = 0 \/ x.threw THEN x
  ELSE StopFrom(StopCatch(ModuleStop(x, i)), i - 1)

\* the rest of stop(), resumed after the await
EngineStopRest(x) ==
  LET x1 == StopCatch([x EXCEPT !.threw = x.rejected, !.rejected = FALSE,
                                !.deferred = FALSE])
      x2 == StopFrom(x1, x.stopAt)
  IN IF ~x.deferred THEN x
     ELSE IF x2.threw THEN x2
     ELSE EnginePublish(x2, "engine:stopped")

\* stop() without the running guard
EngineStopUnguarded(x) ==
  EngineStopRest(EngineStopSync([x EXCEPT !.eng.running = TRUE]))

\* await engine.stop() from outside a frame
EngineStop(x) == EngineStopRest(EngineStopSync(x))

HookOf(phase) ==
  CASE phase = "update" -> "onUpdate"
    [] phase = "fixedUpdate" -> "onFixedUpdate"
    [] phase = "lateUpdate" -> "onLateUpdate"

\* the hook of this kind of module throws
Crashes(kind, phase) ==
  \/ kind = "crashUpdate" /\ phase = "update"
  \/ kind = "crashFixedUpdate" /\ phase = "fixedUpdate"
  \/ kind = "crashLateUpdate" /\ phase = "lateUpdate"

\* Module.update / fixedUpdate / lateUpdate
ModuleUpdate(x, i, phase) ==
  LET mod == x.eng.modules[i]
      x1 == Logged(x, mod.name, phase)
      x2 == Logged(x1, mod.name, HookOf(phase))
  IN IF ~(mod.enabled /\ mod.initialized) THEN x1
     ELSE IF mod.kind = "stopper" /\ phase = "update" THEN EngineStopSync(x2)
     ELSE IF Crashes(mod.kind, phase) THEN [x2 EXCEPT !.threw = TRUE]
     ELSE x2

RECURSIVE ForEachModule(_, _, _)
ForEachModule(x, i, phase) ==
  IF i > Len(x.eng.modules) \/ x.threw THEN x
  ELSE ForEachModule(ModuleUpdate(x, i, phase), i + 1, phase)

RECURSIVE ForEachModuleReversed(_, _, _)
ForEachModuleReversed(x, i, phase) ==
  IF i = 0 THEN x
  ELSE ForEachModuleReversed(ModuleUpdate(x, i, phase), i - 1, phase)

\* the modules visited last to first
EngineUpdateReversed(x) ==
  EnginePublish(ForEachModuleReversed(x, Len(x.eng.modules), "update"),
                "engine:update")

EngineUpdate(x) == EnginePublish(ForEachModule(x, 1, "update"), "engine:update")

EngineFixedUpdate(x) ==
  EnginePublish(ForEachModule(x, 1, "fixedUpdate"), "engine:fixedUpdate")

EngineLateUpdate(x) ==
  EnginePublish(ForEachModule(x, 1, "lateUpdate"), "engine:lateUpdate")

RECURSIVE Drain(_)
Drain(x) ==
  IF x.eng.accumulator < fixedTimeStep THEN x
  ELSE LET x1 == EngineFixedUpdate(x)
       IN IF x1.threw THEN x1
          ELSE Drain([x1 EXCEPT !.eng.accumulator = @ - fixedTimeStep])

\* requestAnimationFrame(() => this.gameLoop()), not reached by a frame
\* that an exception has left
RequestFrame(x) ==
  IF x.threw THEN x
  ELSE [x EXCEPT !.eng.animationFrameId = x.eng.nextId,
                 !.eng.pending = @ \cup {x.eng.nextId},
                 !.eng.nextId = @ + 1]

\* GameEngine.gameLoop(), `elapsed` after the previous frame
gameLoop(x, elapsed) ==
  LET deltaTime == Min(elapsed, maxDeltaTime)
      since == x.eng.sinceFps + elapsed
      x1 == [x EXCEPT !.eng.frameCount = @ + 1]
      x2 == IF since >= fpsWindow
            THEN EnginePublish([x1 EXCEPT !.eng.fps = x1.eng.frameCount,
                                          !.eng.frameCount = 0,
                                          !.eng.sinceFps = 0],
                               "engine:fps")
            ELSE [x1 EXCEPT !.eng.sinceFps = since]
      x3 == Drain([x2 EXCEPT !.eng.accumulator = @ + deltaTime])
      x4 == RequestFrame(EngineLateUpdate(EngineUpdate(x3)))
  IN IF ~x.eng.running THEN x ELSE x4

\* the frame callback as the host runs it: the loop, then the promise jobs
\* that the frame left behind
FrameTask(x, elapsed) == EngineStopRest(gameLoop(x, elapsed))

registerModule(x, mod) ==
  IF mod.name \in Range(Names(x.eng.modules)) THEN [x EXCEPT !.threw = TRUE]
  ELSE [x EXCEPT !.eng.modules = Append(@, mod)]

RECURSIVE InitializeFrom(_, _)
InitializeFrom(x, i) ==
  IF i > Len(x.eng.modules) THEN x
  ELSE LET x1 == ModuleInitialize(x, i)
       IN IF x1.threw THEN [x1 EXCEPT !.failed = i]
          ELSE InitializeFrom(x1, i + 1)

RECURSIVE InitializeAllFrom(_, _)
InitializeAllFrom(x, i) ==
  IF i > Len(x.eng.modules) THEN x
  ELSE LET x1 == ModuleInitialize(x, i)
       IN InitializeAllFrom([x1 EXCEPT !.failed =
                               IF x1.threw /\ x.failed = 0 THEN i ELSE x.failed],
                            i + 1)

\* initialize() going on to the next module after a failure
EngineInitializeAll(x) ==
  LET x1 == InitializeAllFrom(x, 1)
  IN IF x1.threw THEN x1 ELSE EnginePublish(x1, "engine:initialized")

\* GameEngine.initialize()
EngineInitialize(x) ==
  LET x1 == InitializeFrom(x, 1)
  IN IF x1.threw THEN x1 ELSE EnginePublish(x1, "engine:initialized")

RECURSIVE StartFrom(_, _)
StartFrom(x, i) ==
  IF i > Len(x.eng.modules) THEN x
  ELSE LET x1 == ModuleStart(x, i)
       IN IF x1.threw THEN x1 ELSE StartFrom(x1, i + 1)

\* GameEngine.start()
EngineStart(x) ==
  LET x1 == StartFrom(Logged(x, "engine", "start"), 1)
      x2 == EnginePublish([x1 EXCEPT !.eng.running = TRUE,
                                     !.eng.sinceFps = 0],
                          "engine:started")
  IN IF x.eng.running THEN x
     ELSE IF x1.threw THEN x1
     ELSE FrameTask(x2, 0)

\* start() as the event loop runs it.  Each `await module.start()` is a
\* point where start() is suspended and other calls run; eng.starts holds,
\* for every suspended invocation, the module it awaits and whether that
\* module's start has failed.
\* the loop of start() from the i-th module on, up to its next await; with
\* no module left: the rest of start()
StartNext(x, i) ==
  IF i > Len(x.eng.modules)
    THEN FrameTask(EnginePublish([x EXCEPT !.eng.running = TRUE,
                                           !.eng.sinceFps = 0],
                                 "engine:started"),
                   0)
    ELSE LET x1 == ModuleStart(x, i)
         IN [x1 EXCEPT !.threw = FALSE,
                       !.eng.starts = Append(@, [at |-> i, failed |-> x1.threw])]

\* engine.start() up to its first await
StartBegin(x) ==
  IF x.eng.running THEN x ELSE StartNext(Logged(x, "engine", "start"), 1)

\* the k-th suspended start() goes on after its await
StartResume(x, k) ==
  LET task == x.eng.starts[k]
      x1 == [x EXCEPT !.eng.starts =
                        SubSeq(@, 1, k - 1) \o SubSeq(@, k + 1, Len(@))]
  IN IF task.failed
       THEN [x1 EXCEPT !.threw = TRUE, !.failed = task.at]
       ELSE StartNext(x1, task.at + 1)

\* the destroy loop without its try/catch
DestroyRethrow(x) == x

\* catch (error) { this.logger.error(`Failed to destroy module ...`) }
DestroyCatch(x) == [x EXCEPT !.threw = FALSE]

RECURSIVE DestroyFrom(_, _)
DestroyFrom(x, i) ==
  IF i > Len(x.eng.modules) \/ x.threw THEN x
  ELSE DestroyFrom(DestroyCatch(ModuleDestroy(x, i)), i + 1)

\* GameEngine.destroy()
EngineDestroy(x) ==
  LET x1 == IF x.eng.running THEN EngineStop(x) ELSE x
      x2 == IF x1.threw THEN x1 ELSE DestroyFrom(x1, 1)
      x3 == [x2 EXCEPT !.eng.modules = <<>>, !.bus = clearAll(x2.bus)]
  IN IF x2.threw THEN x2 ELSE EnginePublish(x3, "engine:destroyed")

\* what the observers hold before any call
NoBusLog ==
  [op |-> "new", event |-> "", order |-> [e \in EventNames |-> <<>>],
   pre |-> <<>>, preOnce |-> <<>>, delivered |-> <<>>, threw |-> FALSE]

NoEngineLog ==
  [op |-> "new", arg |-> <<>>, log |-> <<>>, events |-> <<>>,
   threw |-> FALSE, failed |-> 0]

\* ------------------------------------------------------------------------
\* State
\* ------------------------------------------------------------------------
VARIABLES
  chunks,              \* WorldManager.chunks: chunk id -> Chunk
  activeChunks,        \* WorldManager.activeChunks
  worldState,          \* StateManager.worldState.blocks
  history,             \* StateManager.history
  historyIndex,        \* StateManager.historyIndex
  isUndoingOrRedoing,  \* StateManager.isUndoingOrRedoing
  currentTool,         \* StateManager.uiState.currentTool
  now,                 \* the clock read by Date.now()
  lastCall,            \* the call made last: its arguments and the cursor it found
  events,              \* the events that call published, in order
  threw,               \* that call raised an exception to its caller
  caught,              \* EventBus.emit caught an exception during that call
  seq,                 \* observer of an operation sequence and its undos/redos
  calls,               \* observer of the placement calls made on each column
  bus,                 \* GameEngine.eventBus: EventBus.events / onceEvents
  busLog,              \* observer of the subscriptions and of the last emit
  engine,              \* GameEngine: modules, running, animationFrameId, ...
  engineLog,           \* observer of the hooks the last engine call invoked
  payloads,            \* the payloads of the chunk and tile events in `events`
  globalEntities,      \* WorldManager.globalEntities
  view,                \* WorldManager.viewX, viewY
  input,               \* InputManager.keys / mouse.buttons that are down
  presses,             \* observer of a run of placements and Cmd/Ctrl+Z presses
  assets,              \* AssetManager: assets, loading, counters
  probe                \* a value, its serialized form and what is read back

worldVars == <<chunks, activeChunks, worldState, history, historyIndex,
               isUndoingOrRedoing, currentTool, now, lastCall, events, threw,
               caught, seq, calls, payloads, globalEntities, view>>

hostVars == <<input, presses, assets, probe>>

vars == <<chunks, activeChunks, worldState, history, historyIndex,
          isUndoingOrRedoing, currentTool, now, lastCall, events, threw,
          caught, seq, calls, bus, busLog, engine, engineLog, payloads,
          globalEntities, view, input, presses, assets, probe>>

Call(op, arg) ==
  [op |-> op, arg |-> arg, idx |-> historyIndex, len |-> Len(history)]

\* the engine state as a call finds it
M ==
  [chunks |-> chunks, active |-> activeChunks, ws |-> worldState,
   history |-> history, historyIndex |-> historyIndex,
   flag |-> isUndoingOrRedoing, tool |-> currentTool, events |-> <<>>,
   threw |-> FALSE, caught |-> FALSE, now |-> now, global |-> globalEntities,
   view |-> view, payloads |-> <<>>, undos |-> 0]

\* the engine state as a call leaves it
CommitCore(m, call) ==
  /\ chunks' = m.chunks
  /\ activeChunks' = m.active
  /\ worldState' = m.ws
  /\ history' = m.history
  /\ historyIndex' = m.historyIndex
  /\ isUndoingOrRedoing' = m.flag
  /\ currentTool' = m.tool
  /\ events' = m.events
  /\ threw' = m.threw
  /\ caught' = m.caught
  /\ lastCall' = call
  /\ now' = now
  /\ payloads' = m.payloads
  /\ globalEntities' = m.global
  /\ view' = m.view
  /\ UNCHANGED <<bus, busLog, engine, engineLog>>

Commit(m, call) == CommitCore(m, call) /\ UNCHANGED <<seq, calls, hostVars>>

NoView == [blocks |-> EmptyMap, highest |-> EmptyMap]
NoSeq ==
  [phase |-> "none", wide |-> FALSE, k |-> 0, n |-> 0, pre |-> NoView,
   post |-> NoView]
NoCalls == [c \in Cols |-> [noz |-> 0, stk |-> 0, zs |-> <<>>]]

NoInput == [keys |-> {}, buttons |-> {}]
NoPresses ==
  [phase |-> "none", placed |-> 0, pressed |-> 0, undos |-> 0, held |-> 0]
\* AssetManager, with the call made last, the events it published and
\* whether destroy() has run
NewAssetManager ==
  [assets |-> {}, loading |-> {}, totalAssets |-> 0, loadedAssets |-> 0,
   destroyed |-> FALSE, op |-> "new", events |-> <<>>]
NoProbe == [of |-> "none"]

InitEngine ==
  /\ chunks = EmptyMap
  /\ activeChunks = {}
  /\ worldState = EmptyMap
  /\ history = <<>>
  /\ historyIndex = -1
  /\ isUndoingOrRedoing = FALSE
  /\ currentTool = "select"
  /\ now = 0
  /\ lastCall = [op |-> "new", arg |-> <<>>, idx |-> -1, len |-> 0]
  /\ events = <<>>
  /\ threw = FALSE
  /\ caught = FALSE
  /\ bus = NewBus
  /\ busLog = NoBusLog
  /\ engine = NewEngine(<<>>)
  /\ engineLog = NoEngineLog
  /\ payloads = <<>>
  /\ globalEntities = EmptyMap
  /\ view = <<0, 0>>
  /\ input = NoInput
  /\ presses = NoPresses
  /\ assets = NewAssetManager

Init == InitEngine /\ seq = NoSeq /\ calls = NoCalls /\ probe = NoProbe

\* ------------------------------------------------------------------------
\* Calls
\* ------------------------------------------------------------------------
\* eventBus.emit('tile:requestPlace', {x, y, z})
RequestPlace(x, y, z) ==
  Commit(EmitRequestPlace(M, x, y, z), Call("requestPlace", <<x, y, z>>))

\* eventBus.emit('tile:requestDelete', {x, y, z})
RequestDelete(x, y, z) ==
  Commit(EmitRequestDelete(M, x, y, z), Call("requestDelete", <<x, y, z>>))

\* input:mousedown with button 0 at a world position given in half tiles
LeftClick(hx, hy) ==
  LET tileX == hx \div 2
      tileY == hy \div 2
  IN Commit(Handled(handleTileClick(Handled(handleClick(M, tileX, tileY)),
                                    tileX, tileY)),
            Call("leftClick", <<tileX, tileY>>))

\* input:mousedown with button 2
RightClick(hx, hy) ==
  LET tileX == hx \div 2
      tileY == hy \div 2
  IN Commit(Handled(handleTileRightClick(M, tileX, tileY)),
            Call("rightClick", <<tileX, tileY>>))

SetTool(t) == Commit(setTool(M, t), Call("setTool", <<t>>))

Undo == Commit(undo(M), Call("undo", <<>>))

Redo == Commit(redo(M), Call("redo", <<>>))

ClearHistory == Commit(clearHistory(M), Call("clearHistory", <<>>))

CreateWorld == Commit(createWorld(M), Call("createWorld", <<>>))

\* direct calls of the WorldManager API
PlaceBlock(x, y, z) ==
  Commit(placeBlock(M, x, y, z), Call("placeBlock", <<x, y, z>>))

PlaceBlockExact(x, y, z, type) ==
  Commit(placeBlockExact(M, x, y, z, NewBlock(x, y, z, type, EmptyProps)),
         Call("placeBlockExact", <<x, y, z>>))

RemoveBlock(x, y, z) ==
  Commit(removeBlock(M, x, y, z), Call("removeBlock", <<x, y, z>>))

SetBlockAt(x, y, z, type) ==
  Commit(setBlockAt(M, x, y, z, NewBlock(x, y, z, type, EmptyProps)),
         Call("setBlockAt", <<x, y, z>>))

\* chunk.metadata.static = true, set by the host on a loaded chunk
MarkStatic(cid) ==
  /\ cid \in DOMAIN chunks
  /\ ~chunks[cid].static
  /\ chunks' = [chunks EXCEPT ![cid].static = TRUE]
  /\ lastCall' = Call("markStatic", cid)
  /\ events' = <<>>
  /\ threw' = FALSE
  /\ caught' = FALSE
  /\ UNCHANGED <<activeChunks, worldState, history, historyIndex,
                 isUndoingOrRedoing, currentTool, now, seq, calls>>
  /\ payloads' = <<>>
  /\ UNCHANGED <<bus, busLog, engine, engineLog, globalEntities, view,
                 hostVars>>

\* StateManager.destroy()
Destroy == Commit(onDestroy(M), Call("destroy", <<>>))

\* time passes
Tick ==
  /\ now < MaxTime
  /\ now' = now + 1
  /\ UNCHANGED <<chunks, activeChunks, worldState, history, historyIndex,
                 isUndoingOrRedoing, currentTool, lastCall, events, threw,
                 caught, seq, calls>>
  /\ UNCHANGED <<bus, busLog, engine, engineLog, payloads, globalEntities,
                 view, hostVars>>

HalfTiles == {2 * c[1] : c \in Cols} \cup {2 * c[1] + 1 : c \in Cols}

Bounded == Len(history') <= MaxRecorded /\ historyIndex' <= MaxRecorded

\* ------------------------------------------------------------------------
\* Spec: bus requests, undo and redo on a running engine
\* ------------------------------------------------------------------------
Next ==
  \/ \E c \in Cols, z \in Layers : RequestPlace(c[1], c[2], z) /\ Bounded
  \/ \E c \in Cols, z \in Layers : RequestDelete(c[1], c[2], z) /\ Bounded
  \/ Undo
  \/ Redo
  \/ CreateWorld
  \/ \E cid \in DOMAIN chunks : MarkStatic(cid)

Spec == Init /\ [][Next]_vars

\* ------------------------------------------------------------------------
\* SpecWorld: the WorldManager API called directly by the host
\* ------------------------------------------------------------------------
NextWorld ==
  \/ \E c \in Cols, z \in Layers : PlaceBlock(c[1], c[2], z) /\ Bounded
  \/ \E c \in Cols, z \in Layers :
       PlaceBlockExact(c[1], c[2], z, "stone") /\ Bounded
  \/ \E c \in Cols, z \in Layers : RemoveBlock(c[1], c[2], z) /\ Bounded
  \/ \E c \in Cols : SetBlockAt(c[1], c[2], 0, "stone")
  \/ \E cid \in DOMAIN chunks : MarkStatic(cid)
  \/ CreateWorld
  \/ Tick

SpecWorld == Init /\ [][NextWorld]_vars

\* ------------------------------------------------------------------------
\* SpecLife: the StateManager through clearHistory and destroy; its bus
\* handlers stay subscribed after destroy
\* ------------------------------------------------------------------------
NextLife ==
  \/ \E c \in Cols, z \in Layers : RequestPlace(c[1], c[2], z) /\ Bounded
  \/ \E c \in Cols, z \in Layers : RequestDelete(c[1], c[2], z) /\ Bounded
  \/ Undo
  \/ Redo
  \/ ClearHistory
  \/ Destroy

SpecLife == Init /\ [][NextLife]_vars

\* ------------------------------------------------------------------------
\* SpecCap: one cell, so that the history fills up to its capacity
\* ------------------------------------------------------------------------
NextCap ==
  \/ \E c \in DeepCols : RequestPlace(c[1], c[2], 0)
  \/ \E c \in DeepCols : RequestDelete(c[1], c[2], 0)
  \/ Undo
  \/ Redo

SpecCap == Init /\ [][NextCap]_vars

\* ------------------------------------------------------------------------
\* SpecInv: a sequence of requests that take effect, then as many undos,
\* then as many redos.  A run works either on one cell (long sequences) or
\* on several columns and layers (short sequences).
\* ------------------------------------------------------------------------
WideLayers == 0..1
SeqCells(wide) ==
  IF wide THEN Cols \X WideLayers ELSE DeepCols \X {0}
SeqBound(wide) == IF wide THEN MaxWideSeq ELSE MaxSeq

\* Chunk.localToWorld for every stored block
WorldKeys ==
  UNION {{<<cid[1] * SIZE + k[1], cid[2] * SIZE + k[2], k[3]>> :
            k \in DOMAIN chunks[cid].blocks} : cid \in DOMAIN chunks}

\* the declared properties of a block, and the height the renderer reads
View(b) ==
  [json |-> toJSON(b),
   height |-> IF "height" \in b.properties.keys THEN b.properties.height ELSE 0]

WorldView ==
  [blocks |-> [w \in WorldKeys |-> View(getBlockAt(M, w[1], w[2], w[3]))],
   highest |-> [c \in Cols |-> WorldGetHighestBlockZ(M, c[1], c[2])]]

InitInv ==
  /\ InitEngine
  /\ probe = NoProbe
  /\ calls = NoCalls
  /\ seq \in {[NoSeq EXCEPT !.phase = "setup", !.wide = w] : w \in BOOLEAN}

\* blocks that exist before the sequence: terrain the host has set
SetupBlock(c) ==
  /\ seq.phase = "setup"
  /\ <<c, 0>> \in SeqCells(seq.wide)
  /\ getBlockAt(M, c[1], c[2], 0) = NoBlock
  /\ CommitCore(setBlockAt(M, c[1], c[2], 0, NewBlock(c[1], c[2], 0, "stone", EmptyProps)),
                Call("setBlockAt", <<c[1], c[2], 0>>))
  /\ UNCHANGED <<seq, calls, hostVars>>

\* history that exists before the sequence
SetupPlace(c, z) ==
  /\ seq.phase = "setup"
  /\ <<c, z>> \in SeqCells(seq.wide)
  /\ Len(history) < 1
  /\ CommitCore(EmitRequestPlace(M, c[1], c[2], z),
                Call("requestPlace", <<c[1], c[2], z>>))
  /\ UNCHANGED <<seq, calls, hostVars>>

BeginSeq ==
  /\ seq.phase = "setup"
  /\ seq' = [seq EXCEPT !.phase = "ops", !.pre = WorldView]
  /\ UNCHANGED <<chunks, activeChunks, worldState, history, historyIndex,
                 isUndoingOrRedoing, currentTool, now, lastCall, events,
                 threw, caught, calls>>
  /\ UNCHANGED <<bus, busLog, engine, engineLog, payloads, globalEntities,
                 view, hostVars>>

\* a request of the sequence; it counts when the world applied it
SeqPlace(c, z) ==
  /\ seq.phase = "ops"
  /\ <<c, z>> \in SeqCells(seq.wide)
  /\ seq.k < SeqBound(seq.wide)
  /\ LET m2 == EmitRequestPlace(M, c[1], c[2], z)
     IN /\ CommitCore(m2, Call("requestPlace", <<c[1], c[2], z>>))
        /\ seq' = [seq EXCEPT !.k = IF m2.chunks # chunks THEN @ + 1 ELSE @]
  /\ UNCHANGED <<calls, hostVars>>

SeqDelete(c, z) ==
  /\ seq.phase = "ops"
  /\ <<c, z>> \in SeqCells(seq.wide)
  /\ seq.k < SeqBound(seq.wide)
  /\ LET m2 == EmitRequestDelete(M, c[1], c[2], z)
     IN /\ CommitCore(m2, Call("requestDelete", <<c[1], c[2], z>>))
        /\ seq' = [seq EXCEPT !.k = IF m2.chunks # chunks THEN @ + 1 ELSE @]
  /\ UNCHANGED <<calls, hostVars>>

EndSeq ==
  /\ seq.phase = "ops"
  /\ seq' = [seq EXCEPT !.phase = "undo", !.post = WorldView, !.n = 0]
  /\ UNCHANGED <<chunks, activeChunks, worldState, history, historyIndex,
                 isUndoingOrRedoing, currentTool, now, lastCall, events,
                 threw, caught, calls>>
  /\ UNCHANGED <<bus, busLog, engine, engineLog, payloads, globalEntities,
                 view, hostVars>>

SeqUndo ==
  /\ seq.phase = "undo"
  /\ seq.n < seq.k
  /\ CommitCore(undo(M), Call("undo", <<>>))
  /\ seq' = [seq EXCEPT !.n = @ + 1]
  /\ UNCHANGED <<calls, hostVars>>

BeginRedo ==
  /\ seq.phase = "undo"
  /\ seq.n = seq.k
  /\ seq' = [seq EXCEPT !.phase = "redo", !.n = 0]
  /\ UNCHANGED <<chunks, activeChunks, worldState, history, historyIndex,
                 isUndoingOrRedoing, currentTool, now, lastCall, events,
                 threw, caught, calls>>
  /\ UNCHANGED <<bus, busLog, engine, engineLog, payloads, globalEntities,
                 view, hostVars>>

SeqRedo ==
  /\ seq.phase = "redo"
  /\ seq.n < seq.k
  /\ CommitCore(redo(M), Call("redo", <<>>))
  /\ seq' = [seq EXCEPT !.n = @ + 1]
  /\ UNCHANGED <<calls, hostVars>>

NextInv ==
  \/ \E c \in Cols : SetupBlock(c)
  \/ \E c \in Cols, z \in WideLayers : SetupPlace(c, z)
  \/ BeginSeq
  \/ \E c \in Cols, z \in WideLayers : SeqPlace(c, z)
  \/ \E c \in Cols, z \in WideLayers : SeqDelete(c, z)
  \/ EndSeq
  \/ SeqUndo
  \/ BeginRedo
  \/ SeqRedo

SpecInv == InitInv /\ [][NextInv]_vars

\* ------------------------------------------------------------------------
\* SpecStack: placeBlock called on the columns of an empty world, without a
\* z argument or with z = getHighestBlockZ + 1
\* ------------------------------------------------------------------------
Placed(m, z) ==
  IF \E i \in DOMAIN m.events : m.events[i] = "block:added" THEN z ELSE -1

NoZPlace(c) ==
  /\ calls[c].noz + calls[c].stk < MaxCalls
  /\ LET m2 == placeBlockDefaultZ(M, c[1], c[2])
     IN /\ CommitCore(m2, Call("placeBlock", <<c[1], c[2]>>))
        /\ calls' = [calls EXCEPT ![c].noz = @ + 1,
                                  ![c].zs = Append(@, Placed(m2, 0))]
  /\ UNCHANGED <<seq, hostVars>>

StackPlace(c) ==
  /\ calls[c].noz + calls[c].stk < MaxCalls
  /\ LET z == WorldGetHighestBlockZ(M, c[1], c[2]) + 1
         m2 == placeBlock(M, c[1], c[2], z)
     IN /\ CommitCore(m2, Call("placeBlock", <<c[1], c[2], z>>))
        /\ calls' = [calls EXCEPT ![c].stk = @ + 1,
                                  ![c].zs = Append(@, Placed(m2, z))]
  /\ UNCHANGED <<seq, hostVars>>

NextStack ==
  \/ \E c \in Cols : NoZPlace(c)
  \/ \E c \in Cols : StackPlace(c)

SpecStack == Init /\ [][NextStack]_vars

\* ------------------------------------------------------------------------
\* The bus on its own: subscriptions and publishes made by its clients
\* ------------------------------------------------------------------------
Listeners == listenerCount(bus, "engine:update") + listenerCount(bus, "engine:stopped")

Entry(h, kind) == [h |-> h, kind |-> kind]

\* eventBus.on(e, h)
On(e, h) ==
  /\ Listeners < MaxSubs
  /\ bus' = on(bus, e, h)
  /\ busLog' = [NoBusLog EXCEPT
                  !.op = "on", !.event = e,
                  !.order = [busLog.order EXCEPT ![e] =
                               IF h \in Range(bus.events[e]) THEN @
                               ELSE Append(@, Entry(h, "on"))]]
  /\ UNCHANGED <<worldVars, hostVars, engine, engineLog>>

\* eventBus.once(e, h)
Once(e, h) ==
  /\ Listeners < MaxSubs
  /\ bus' = once(bus, e, h)
  /\ busLog' = [NoBusLog EXCEPT
                  !.op = "once", !.event = e,
                  !.order = [busLog.order EXCEPT ![e] =
                               IF h \in Range(bus.onceEvents[e]) THEN @
                               ELSE Append(@, Entry(h, "once"))]]
  /\ UNCHANGED <<worldVars, hostVars, engine, engineLog>>

\* eventBus.off(e, h)
Off(e, h) ==
  /\ bus' = off(bus, e, h)
  /\ busLog' = [NoBusLog EXCEPT
                  !.op = "off", !.event = e,
                  !.order = [busLog.order EXCEPT ![e] =
                               SelectSeq(@, LAMBDA r : r.h # h)]]
  /\ UNCHANGED <<worldVars, hostVars, engine, engineLog>>

\* eventBus.emit(e)
Emit(e) ==
  LET d == emit(bus, e)
      left == [i \in DOMAIN d.bus.events[e] |-> Entry(d.bus.events[e][i], "on")]
      again == [i \in DOMAIN d.bus.onceEvents[e] |->
                  Entry(d.bus.onceEvents[e][i], "once")]
  IN /\ bus' = d.bus
     /\ busLog' = [op |-> "emit", event |-> e,
                   order |-> [busLog.order EXCEPT ![e] = left \o again],
                   pre |-> busLog.order[e], preOnce |-> bus.onceEvents[e],
                   delivered |-> d.log, threw |-> d.threw]
     /\ UNCHANGED <<worldVars, hostVars, engine, engineLog>>

\* eventBus.clear(e)
Clear(e) ==
  /\ bus' = clear(bus, e)
  /\ busLog' = [NoBusLog EXCEPT !.op = "clear", !.event = e,
                                !.order = [busLog.order EXCEPT ![e] = <<>>]]
  /\ UNCHANGED <<worldVars, hostVars, engine, engineLog>>

\* eventBus.clear()
ClearAll ==
  /\ bus' = clearAll(bus)
  /\ busLog' = [NoBusLog EXCEPT !.op = "clear"]
  /\ UNCHANGED <<worldVars, hostVars, engine, engineLog>>

NextBus ==
  \/ \E e \in EventNames, h \in Callbacks : On(e, h)
  \/ \E e \in EventNames, h \in Callbacks : Once(e, h)
  \/ \E e \in EventNames, h \in Callbacks : Off(e, h)
  \/ \E e \in EventNames : Emit(e)
  \/ \E e \in EventNames : Clear(e)
  \/ ClearAll

SpecBus == Init /\ [][NextBus]_vars

\* ------------------------------------------------------------------------
\* The engine: registration, lifecycle calls and frame callbacks
\* ------------------------------------------------------------------------
CommitEngine(x, op, arg) ==
  /\ engine' = x.eng
  /\ bus' = x.bus
  /\ engineLog' = [op |-> op, arg |-> arg, log |-> x.log,
                   events |-> x.events, threw |-> x.threw,
                   failed |-> x.failed]
  /\ UNCHANGED <<worldVars, hostVars, busLog>>

\* engine.registerModule(new <kind>(engine))
RegisterModule(kind) ==
  /\ Len(engine.modules) < MaxModules
  /\ CommitEngine(registerModule(X(engine, bus), NewModule(kind)),
                  "registerModule", kind)

\* a client of the engine subscribes to one of its events
Subscribe(e) ==
  CommitEngine([X(engine, bus) EXCEPT !.bus = on(bus, e, "plain")], "on", e)

\* await engine.initialize()
Initialize == CommitEngine(EngineInitialize(X(engine, bus)), "initialize", <<>>)

\* await engine.start()
Start ==
  /\ engine.nextId <= MaxFrames
  /\ CommitEngine(EngineStart(X(engine, bus)), "start", <<>>)

\* await engine.stop()
Stop == CommitEngine(EngineStop(X(engine, bus)), "stop", <<>>)

\* await engine.destroy()
DestroyEngine == CommitEngine(EngineDestroy(X(engine, bus)), "destroy", <<>>)

\* the host runs a frame callback it was asked for
Frame(id, elapsed) ==
  /\ id \in engine.pending
  /\ engine.nextId <= MaxFrames \/ ~engine.running
  /\ CommitEngine(FrameTask(X([engine EXCEPT !.pending = @ \ {id}], bus),
                            elapsed),
                  "frame", elapsed)

NextEngine ==
  \/ \E kind \in ModuleKinds : RegisterModule(kind)
  \/ \E e \in EventNames : Subscribe(e)
  \/ Initialize
  \/ Start
  \/ Stop
  \/ DestroyEngine
  \/ \E id \in 1..(MaxFrames + 1), el \in Elapsed : Frame(id, el)

SpecEngine == Init /\ [][NextEngine]_vars

\* ------------------------------------------------------------------------
\* Module methods called one by one on registered modules
\* ------------------------------------------------------------------------
Registered == DOMAIN engine.modules

InitializeModule(i) ==
  CommitEngine(ModuleInitialize(X(engine, bus), i), "module.initialize", i)

StartModule(i) ==
  CommitEngine(ModuleStart(X(engine, bus), i), "module.start", i)

UpdateModule(i, phase) ==
  CommitEngine(ModuleUpdate(X(engine, bus), i, phase), phase, i)

DestroyModule(i) ==
  CommitEngine(ModuleDestroy(X(engine, bus), i), "module.destroy", i)

EnableModule(i) == CommitEngine(enable(X(engine, bus), i), "enable", i)

DisableModule(i) == CommitEngine(disable(X(engine, bus), i), "disable", i)

Phases == {"update", "fixedUpdate", "lateUpdate"}

NextModule ==
  \/ \E kind \in {"plain", "faulty"} : RegisterModule(kind)
  \/ \E i \in Registered : InitializeModule(i)
  \/ \E i \in Registered : StartModule(i)
  \/ \E i \in Registered, phase \in Phases : UpdateModule(i, phase)
  \/ \E i \in Registered : DestroyModule(i)
  \/ \E i \in Registered : EnableModule(i)
  \/ \E i \in Registered : DisableModule(i)

SpecModule == Init /\ [][NextModule]_vars

\* ------------------------------------------------------------------------
\* Properties
\* ------------------------------------------------------------------------
Has(evs, name) == \E i \in DOMAIN evs : evs[i] = name

CanUndo == historyIndex >= 0
CanRedo == historyIndex < Len(history) - 1
RedoIsNoOp == redo(M) = M

RequestStep ==
  \E c \in Cols, z \in Layers :
    RequestPlace(c[1], c[2], z) \/ RequestDelete(c[1], c[2], z)

\* C1: a call of undo() or redo() leaves history.length unchanged, also when
\* the replayed mutation publishes block:added / block:removed, which the
\* StateManager's own handlers receive during the call.
C1_ReentrancyGuard ==
  [][(Undo \/ Redo) => Len(history') = Len(history)]_vars

\* an undo that re-placed a removed block: block:added was published and
\* handled inside the call
C1_Witness ==
  /\ lastCall.op = "undo"
  /\ Has(events, "block:added")
  /\ historyIndex = lastCall.idx - 1

\* C3: when a place/remove action is recorded while
\* historyIndex < history.length - 1, the entries after historyIndex are
\* discarded before the new one is pushed; afterwards
\* historyIndex = history.length - 1, canRedo is false and redo() is a no-op.
C3_HistoryTruncation ==
  [][(/\ RequestStep
      /\ Has(events', "block:added") \/ Has(events', "block:removed")
      /\ historyIndex < Len(history) - 1)
     => (/\ Len(history') = historyIndex + 2
         /\ SubSeq(history', 1, historyIndex + 1)
              = SubSeq(history, 1, historyIndex + 1)
         /\ historyIndex' = Len(history') - 1
         /\ ~CanRedo'
         /\ RedoIsNoOp')]_vars

\* a placement recorded after a partial undo
C3_Witness ==
  /\ lastCall.op = "requestPlace"
  /\ Has(events, "block:added")
  /\ lastCall.idx < lastCall.len - 1
  /\ lastCall.idx >= 0

\* C4: if the mutation requested by undo() or redo() is not applied by the
\* WorldManager, historyIndex after the call equals its value before the call.
C4_FailureRollback ==
  [][(/\ Undo \/ Redo
      /\ Has(events', "tile:requestDelete")
           \/ Has(events', "tile:requestPlaceExact")
      /\ chunks' = chunks)
     => historyIndex' = historyIndex]_vars

\* C5: in every reachable state -1 <= historyIndex < history.length.
C5_CursorInvariant == -1 <= historyIndex /\ historyIndex < Len(history)

\* C6: history.length never exceeds 50; when a 51st entry is recorded the
\* oldest entry is dropped, historyIndex stays at 49 and the remaining
\* entries keep their order.
C6_HistoryCapacity ==
  [][/\ Len(history') <= maxHistory
     /\ (/\ RequestStep
         /\ Has(events', "block:added") \/ Has(events', "block:removed")
         /\ Len(history) = maxHistory
         /\ historyIndex = maxHistory - 1)
        => (/\ Len(history') = maxHistory
            /\ historyIndex' = maxHistory - 1
            /\ SubSeq(history', 1, maxHistory - 1) = Tail(history)
            /\ history'[maxHistory].type
                 = IF Has(events', "block:added") THEN "block:placed"
                                                  ELSE "block:removed")]_vars

\* an entry recorded into a full history
C6_Witness ==
  /\ lastCall.op \in {"requestPlace", "requestDelete"}
  /\ Has(events, "block:added") \/ Has(events, "block:removed")
  /\ lastCall.len = maxHistory
  /\ lastCall.idx = maxHistory - 1

\* C7: undo() with historyIndex < 0 and redo() with
\* historyIndex = history.length - 1 change neither the history, the cursor
\* nor the world, and publish no event.
C7_BoundaryNoOps ==
  [][((Undo /\ historyIndex < 0) \/ (Redo /\ historyIndex = Len(history) - 1))
     => (/\ UNCHANGED <<history, historyIndex, chunks, activeChunks, worldState>>
         /\ events' = <<>>
         /\ ~threw')]_vars

\* a redo at the tail of a history that has entries
C7_Witness ==
  /\ lastCall.op = "redo"
  /\ lastCall.len > 0
  /\ lastCall.idx = lastCall.len - 1

\* C9: placeBlock or placeBlockExact on an occupied cell leaves the world
\* unchanged, publishes no block:added, records nothing and raises nothing.
C9_OccupiedNoOp ==
  [][(\E c \in Cols, z \in Layers :
        /\ getBlockAt(M, c[1], c[2], z) # NoBlock
        /\ PlaceBlock(c[1], c[2], z)
             \/ \E t \in BlockTypes : PlaceBlockExact(c[1], c[2], z, t))
     => (/\ UNCHANGED <<chunks, activeChunks, worldState, history, historyIndex>>
         /\ ~Has(events', "block:added")
         /\ ~threw')]_vars

\* an exact placement on a cell that holds a block
C9_Witness ==
  /\ lastCall.op = "placeBlockExact"
  /\ events = <<>>
  /\ getBlockAt(M, lastCall.arg[1], lastCall.arg[2], lastCall.arg[3]) # NoBlock

\* C10: placeBlock, placeBlockExact and removeBlock on a cell of a static
\* chunk leave the chunk unchanged, publish no block event and raise no
\* exception to the caller.
C10_StaticChunkNoOp ==
  [][(\E c \in Cols, z \in Layers :
        /\ ChunkIdAt(c[1], c[2]) \in DOMAIN chunks
        /\ chunks[ChunkIdAt(c[1], c[2])].static
        /\ \/ PlaceBlock(c[1], c[2], z)
           \/ \E t \in BlockTypes : PlaceBlockExact(c[1], c[2], z, t)
           \/ RemoveBlock(c[1], c[2], z))
     => (/\ chunks' = chunks
         /\ ~Has(events', "block:added")
         /\ ~Has(events', "block:removed")
         /\ ~threw')]_vars

\* C2 (as stated): after any k place/remove operations applied through the
\* bus, k undos return the block set and every column's highest layer to
\* the state before the sequence, and k redos restore the state after it,
\* every block with its type and properties.
C2_InverseLawAnyLength ==
  /\ (seq.phase = "undo" /\ seq.n = seq.k) => WorldView = seq.pre
  /\ (seq.phase = "redo" /\ seq.n = seq.k) => WorldView = seq.post

\* C2 (amended): the same for sequences of at most maxHistory operations.
C2_InverseLaw ==
  seq.k <= maxHistory =>
    /\ (seq.phase = "undo" /\ seq.n = seq.k) => WorldView = seq.pre
    /\ (seq.phase = "redo" /\ seq.n = seq.k) => WorldView = seq.post

\* maxHistory operations, undone and redone, over a block that was there
\* before the sequence
C2_Witness ==
  /\ seq.phase = "redo"
  /\ seq.k = maxHistory
  /\ seq.n = seq.k
  /\ seq.pre.blocks # EmptyMap

Positions(s, r) == {i \in DOMAIN s : s[i] = r}

\* C11: per-handler isolation.  In every emit(E), each handler that was
\* subscribed to E (with on or with once) when the emit began is invoked,
\* whatever the handlers before it did, a throwing one included, and no
\* exception leaves emit.
C11_HandlerIsolation ==
  busLog.op = "emit" =>
    /\ ~busLog.threw
    /\ \A i \in DOMAIN busLog.pre : Positions(busLog.delivered, busLog.pre[i]) # {}

\* an emit in which the throwing handler ran and another handler ran after it
C11_Witness ==
  /\ busLog.op = "emit"
  /\ \E j, k \in DOMAIN busLog.delivered :
       /\ j < k
       /\ busLog.delivered[j].h = "thrower"
       /\ busLog.delivered[k].h # "thrower"

First(s, r) == CHOOSE i \in Positions(s, r) : \A j \in Positions(s, r) : i <= j

\* C12: registration-order delivery.  In every emit(E), of two handlers
\* subscribed to E when the emit began, the one subscribed first is invoked
\* first, whether each was subscribed with on or with once.
C12_RegistrationOrder ==
  busLog.op = "emit" =>
    \A i, j \in DOMAIN busLog.pre :
      (/\ i < j
       /\ Positions(busLog.delivered, busLog.pre[i]) # {}
       /\ Positions(busLog.delivered, busLog.pre[j]) # {})
      => First(busLog.delivered, busLog.pre[i]) < First(busLog.delivered, busLog.pre[j])

\* C13: once semantics.  In every emit(E), each handler subscribed with
\* once(E) when the emit began is invoked exactly once as a once-handler and
\* no handler is invoked twice as a once-handler; afterwards it is no longer
\* subscribed with once, unless it subscribed itself again during its
\* invocation, and then it is subscribed for the next emit(E).
C13_OnceSemantics ==
  busLog.op = "emit" =>
    /\ \A h \in Callbacks :
         Cardinality(Positions(busLog.delivered, Entry(h, "once"))) <= 1
    /\ \A h \in Range(busLog.preOnce) :
         /\ Cardinality(Positions(busLog.delivered, Entry(h, "once"))) = 1
         /\ h \in Range(bus.onceEvents[busLog.event]) <=> h = "resub"

\* an emit that ran a once-handler which subscribed itself again, next to a
\* once-handler that did not
C13_Witness ==
  /\ busLog.op = "emit"
  /\ "resub" \in Range(busLog.preOnce)
  /\ "plain" \in Range(busLog.preOnce)
  /\ bus.onceEvents[busLog.event] = <<"resub">>

\* ------------------------------------------------------------------------
\* Properties of the GameEngine and of Module
\* ------------------------------------------------------------------------
Count(s, v) == Cardinality({i \in DOMAIN s : s[i] = v})

\* the Module.update / fixedUpdate / lateUpdate calls of the last engine call
PhaseCalls == SelectSeq(engineLog.log, LAMBDA r : r.hook \in Phases)

Visit(phase) == [i \in DOMAIN engine.modules |->
                   [m |-> engine.modules[i].name, hook |-> phase]]

RECURSIVE Repeated(_, _)
Repeated(s, n) == IF n = 0 THEN <<>> ELSE s \o Repeated(s, n - 1)

HookCalls(hook) ==
  LET s == SelectSeq(engineLog.log, LAMBDA r : r.hook = hook)
  IN [i \in DOMAIN s |-> s[i].m]

Prefix(s, n) == [i \in 1..n |-> s[i]]

\* C15 as the specification states it: after an initialize() that failed at
\* a module, the modules before it are initialized, that module and the
\* later ones are not initialized and their initialize hook was not invoked,
\* engine:initialized was not published and the error reached the caller.
C15_InitializeAbortsHookNeverInvoked ==
  (engineLog.op = "initialize" /\ engineLog.failed > 0) =>
    /\ engineLog.threw
    /\ ~Has(engineLog.events, "engine:initialized")
    /\ \A i \in DOMAIN engine.modules :
         IF i < engineLog.failed THEN engine.modules[i].initialized
         ELSE /\ ~engine.modules[i].initialized
              /\ engine.modules[i].name \notin Range(HookCalls("onInitialize"))

\* C15: initialize() visits the modules in registration order and stops at
\* the first whose initialize fails: the modules before it are initialized,
\* it and the later ones keep the initialized flag they had, the hook of the
\* later ones is not invoked and that of the failing one only if the module
\* was not initialized yet (the hook is then what threw), engine:initialized
\* is not published and the error reaches the caller.  Without a failure
\* every module is initialized, in order, and the event is published.
C15_InitializeAborts ==
  [][engineLog'.op = "initialize" =>
       LET f == engineLog'.failed
           names == Names(engine.modules)
       IN IF f > 0
          THEN /\ engineLog'.threw
               /\ ~Has(engineLog'.events, "engine:initialized")
               /\ \A i \in DOMAIN engine.modules :
                    IF i < f THEN engine'.modules[i].initialized
                    ELSE engine'.modules[i] = engine.modules[i]
               /\ HookCalls("onInitialize")' =
                    Prefix(names, IF engine.modules[f].initialized
                                  THEN f - 1 ELSE f)
          ELSE /\ ~engineLog'.threw
               /\ Has(engineLog'.events, "engine:initialized")
               /\ \A i \in DOMAIN engine.modules : engine'.modules[i].initialized
               /\ HookCalls("onInitialize")' = names]_vars

\* an initialize() that failed at a module with a module before it and a
\* module after it
C15_Witness ==
  /\ engineLog.op = "initialize"
  /\ engineLog.threw
  /\ engineLog.failed >= 2
  /\ engineLog.failed < Len(engine.modules)
  /\ engine.modules[1].initialized

StopMark == [m |-> "engine", hook |-> "stop"]

\* C16: stop cancels the loop.  While the engine is not running no frame
\* callback is pending, and within a call no module receives fixedUpdate,
\* update or lateUpdate after stop() has taken effect, also when stop() is
\* called from a module hook inside a frame.
C16_StopCancelsLoop ==
  /\ ~engine.running => engine.pending = {}
  /\ \A i, j \in DOMAIN engineLog.log :
       (i < j /\ engineLog.log[i] = StopMark)
       => engineLog.log[j].hook \notin Phases

Reverse(s) == [i \in DOMAIN s |-> s[Len(s) + 1 - i]]

\* C17: reverse-order teardown.  A call in which stop() finds the engine
\* running (a stop() call, a destroy() of a running engine, a frame whose
\* hook calls stop()) invokes the stop hook of every registered module
\* exactly once, last registered first, whether or not one of them throws,
\* and lets no error out.
C17_ReverseTeardown ==
  [][Has(engineLog'.log, StopMark) =>
       /\ Count(engineLog'.log, StopMark) = 1
       /\ HookCalls("onStop")' = Reverse(Names(engine.modules))
       /\ ~engineLog'.threw]_vars

\* a stop() in which a module's stop hook threw and a module registered
\* before it was stopped after it
C17_Witness ==
  /\ engineLog.op = "stop"
  /\ \E j \in DOMAIN HookCalls("onStop") :
       /\ HookCalls("onStop")[j] = "faulty"
       /\ j < Len(HookCalls("onStop"))

\* C18: guarded no-ops.  start() on a running engine and stop() on an engine
\* that is not running invoke no module hook, publish no event, leave the
\* engine (running, the pending frame callbacks, every other field) and the
\* bus as they were, and raise no error.
C18_GuardedNoOps ==
  [][(\/ engineLog'.op = "start" /\ engine.running
      \/ engineLog'.op = "stop" /\ ~engine.running)
     => /\ engine' = engine
        /\ bus' = bus
        /\ engineLog'.log = <<>>
        /\ engineLog'.events = <<>>
        /\ ~engineLog'.threw]_vars

\* a start() that found the engine running, with its frame callback pending
C18_Witness ==
  /\ engineLog.op = "start"
  /\ engineLog.log = <<>>
  /\ engine.running
  /\ engine.pending # {}
  /\ engine.modules # <<>>

HookPositions(hook) == {i \in DOMAIN engineLog.log : engineLog.log[i].hook = hook}

\* C19: destroy().  A running engine is stopped first: every module's stop
\* hook runs, in reverse registration order, before any destroy hook; an
\* engine that is not running stops nothing.  The destroy hook of every
\* registered module is invoked, in registration order, whether or not one
\* of them throws.  Afterwards the registry is empty, the bus has no
\* listener for any event, the engine is not running and no error came out.
C19_DestroyTearsDown ==
  [][engineLog'.op = "destroy" =>
       /\ engine'.modules = <<>>
       /\ \A e \in EventNames : listenerCount(bus', e) = 0
       /\ ~engine'.running
       /\ ~engineLog'.threw
       /\ HookCalls("onDestroy")' = Names(engine.modules)
       /\ HookCalls("onStop")' =
            IF engine.running THEN Reverse(Names(engine.modules)) ELSE <<>>
       /\ \A i \in HookPositions("onStop")', j \in HookPositions("onDestroy")' :
            i < j]_vars

\* a destroy() of a running engine in which a module's destroy hook threw
\* and a module registered after it was destroyed all the same
C19_Witness ==
  /\ engineLog.op = "destroy"
  /\ Has(engineLog.log, StopMark)
  /\ engine.modules = <<>>
  /\ \E j \in DOMAIN HookCalls("onDestroy") :
       /\ HookCalls("onDestroy")[j] = "faulty"
       /\ j < Len(HookCalls("onDestroy"))

\* C20: module lifecycle guards.  Module.initialize() on an initialized
\* module throws and does not run the initialize hook; Module.start() on a
\* module that is not initialized throws and does not run the start hook;
\* update, fixedUpdate and lateUpdate run their hook exactly when the module
\* is enabled and initialized; after destroy() the module is not
\* initialized.
C20_LifecycleGuards ==
  [][LET op == engineLog'.op
         i == engineLog'.arg
     IN /\ (op = "module.initialize" /\ engine.modules[i].initialized)
             => engineLog'.threw /\ engineLog'.log = <<>>
        /\ (op = "module.start" /\ ~engine.modules[i].initialized)
             => engineLog'.threw /\ engineLog'.log = <<>>
        /\ op \in Phases
             => (Has(engineLog'.log,
                     [m |-> engine.modules[i].name, hook |-> HookOf(op)])
                   <=> engine.modules[i].enabled /\ engine.modules[i].initialized)
        /\ op = "module.destroy" => ~engine'.modules[i].initialized]_vars

\* ------------------------------------------------------------------------
\* Entity (positions, velocities and accelerations are kept in thousandths
\* of a tile, so that x + 0.5 and velocity * deltaTime / 1000 are exact; the
\* fields spriteId, color and metadata are left out)
\* ------------------------------------------------------------------------
EmptyEntityProps ==
  [keys |-> {}, width |-> 0, height |-> 0, visible |-> FALSE,
   animated |-> FALSE, animationSpeed |-> 0, solid |-> FALSE,
   interactable |-> FALSE, movable |-> FALSE, health |-> 0, maxHealth |-> 0]

\* properties.k || d for a number: a missing key and 0 both give d
NumOr(p, k, v, d) == IF k \in p.keys /\ v # 0 THEN v ELSE d

\* properties.k || false
BoolOr(p, k, v) == k \in p.keys /\ v

\* properties.k !== undefined ? properties.k : d
Defined(p, k, v, d) == IF k \in p.keys THEN v ELSE d

Zero3 == <<0, 0, 0>>

NewEntity(id, x, y, z, type, p) ==
  [id |-> id, x |-> x, y |-> y, z |-> z, type |-> type,
   width |-> NumOr(p, "width", p.width, 1),
   height |-> NumOr(p, "height", p.height, 1),
   visible |-> Defined(p, "visible", p.visible, TRUE),
   animated |-> BoolOr(p, "animated", p.animated),
   animationFrame |-> 0,
   animationSpeed |-> NumOr(p, "animationSpeed", p.animationSpeed, 100),
   animationTime |-> 0,
   solid |-> Defined(p, "solid", p.solid, TRUE),
   interactable |-> Defined(p, "interactable", p.interactable, TRUE),
   movable |-> BoolOr(p, "movable", p.movable),
   health |-> NumOr(p, "health", p.health, 100),
   maxHealth |-> NumOr(p, "maxHealth", p.maxHealth, 100),
   active |-> TRUE,
   velocity |-> Zero3,
   acceleration |-> Zero3]

updateAnimation(e, deltaTime) ==
  IF ~e.animated
    THEN e
    ELSE LET t == e.animationTime + deltaTime
         IN IF t >= e.animationSpeed
              THEN [e EXCEPT !.animationFrame = @ + 1, !.animationTime = 0]
              ELSE [e EXCEPT !.animationTime = t]

\* deltaTime is in milliseconds; dt = deltaTime / 1000
updatePhysics(e, deltaTime) ==
  IF ~e.movable
    THEN e
    ELSE LET v == [i \in 1..3 |->
                     e.velocity[i] + (e.acceleration[i] * deltaTime) \div 1000]
         IN [e EXCEPT !.velocity = v,
                      !.x = @ + (v[1] * deltaTime) \div 1000,
                      !.y = @ + (v[2] * deltaTime) \div 1000,
                      !.z = @ + (v[3] * deltaTime) \div 1000]

takeDamage(e, damage) ==
  LET h == Max({0, e.health - damage})
  IN [e EXCEPT !.health = h, !.active = IF h = 0 THEN FALSE ELSE @]

EntityToJSON(e) ==
  [id |-> e.id, x |-> e.x, y |-> e.y, z |-> e.z, type |-> e.type,
   properties |->
     [keys |-> {"width", "height", "visible", "animated", "animationSpeed",
                "solid", "interactable", "movable", "health", "maxHealth"},
      width |-> e.width, height |-> e.height, visible |-> e.visible,
      animated |-> e.animated, animationSpeed |-> e.animationSpeed,
      solid |-> e.solid, interactable |-> e.interactable,
      movable |-> e.movable, health |-> e.health, maxHealth |-> e.maxHealth],
   state |-> [active |-> e.active, velocity |-> e.velocity,
              acceleration |-> e.acceleration,
              animationFrame |-> e.animationFrame]]

EntityFromJSON(json) ==
  [NewEntity(json.id, json.x, json.y, json.z, json.type, json.properties)
     EXCEPT !.active = json.state.active,
            !.velocity = json.state.velocity,
            !.acceleration = json.state.acceleration,
            !.animationFrame = json.state.animationFrame]

\* Block.fromJSON: the constructor with the serialized property bag
BlockFromJSON(json) ==
  NewBlock(json.x, json.y, json.z, json.type,
           [EmptyProps EXCEPT
              !.keys = {"spriteId", "color", "solid", "visible", "walkable",
                        "interactable"},
              !.spriteId = json.properties.spriteId,
              !.color = json.properties.color,
              !.solid = json.properties.solid,
              !.visible = json.properties.visible,
              !.walkable = json.properties.walkable,
              !.interactable = json.properties.interactable])

\* ------------------------------------------------------------------------
\* Chunk: entities, bounds, terrain, serialization
\* ------------------------------------------------------------------------
ChunkAddEntity(c, e, t) ==
  IF c.static
    THEN [chunk |-> c, threw |-> TRUE]
    ELSE [chunk |-> markDirty([c EXCEPT !.entities = MapSet(@, e.id, e)], t),
          threw |-> FALSE]

\* Chunk.containsPosition for a position in thousandths of a tile
containsPosition(cid, worldX, worldY) ==
  /\ worldX >= cid[1] * SIZE * 1000
  /\ worldX < (cid[1] + 1) * SIZE * 1000
  /\ worldY >= cid[2] * SIZE * 1000
  /\ worldY < (cid[2] + 1) * SIZE * 1000

markClean(c) == [c EXCEPT !.dirty = FALSE]

\* Math.sin(worldX * 0.1) * Math.cos(worldY * 0.1) against the thresholds
\* 0.3 and -0.3, tabulated for the cells the model reads: sin(0) = 0 and
\* sin(1.6) * cos(0) = 0.9996
Noise(worldX, worldY) ==
  CASE <<worldX, worldY>> = <<0, 0>> -> "mid"
    [] <<worldX, worldY>> = <<16, 0>> -> "high"

\* Chunk.generateTerrain restricted to the cells of Cols (the loop sets a
\* block at each of the 256 cells, so the chunk is dirty afterwards whatever
\* cells are kept); rnd holds the outcomes of Math.random() at a grass cell
generateTerrain(c, cid, rnd, t) ==
  LET cells == {w \in Cols : ChunkIdAt(w[1], w[2]) = cid}
      typeAt(w) ==
        CASE Noise(w[1], w[2]) = "high" -> "stone"
          [] Noise(w[1], w[2]) = "low" -> "water"
          [] OTHER -> IF rnd.sand THEN "sand" ELSE "grass"
      key(w) == LocalKey(w[1], w[2], 0)
      trees == {w \in cells : typeAt(w) = "grass" /\ rnd.tree}
      treeAt(w) ==
        NewEntity(<<cid, "tree", key(w)[1], key(w)[2]>>,
                  w[1] * 1000 + 500, w[2] * 1000 + 500, 0, "tree",
                  EmptyEntityProps)
  IN [c EXCEPT
        !.blocks = [k \in {key(w) : w \in cells} |->
                      LET w == CHOOSE v \in cells : key(v) = k
                      IN NewBlock(k[1], k[2], 0, typeAt(w), EmptyProps)],
        !.entities = [id \in {treeAt(w).id : w \in trees} |->
                        treeAt(CHOOSE v \in trees : treeAt(v).id = id)],
        !.dirty = TRUE,
        !.version = t]

ChunkToJSON(c, cid) ==
  [id |-> cid, chunkX |-> cid[1], chunkY |-> cid[2], version |-> c.version,
   blocks |-> {toJSON(c.blocks[k]) : k \in DOMAIN c.blocks},
   entities |-> {EntityToJSON(c.entities[i]) : i \in DOMAIN c.entities},
   metadata |-> [static |-> c.static]]

ChunkFromJSON(json) ==
  [chunk |->
     markClean(
       [NewChunk(json.version) EXCEPT
          !.static = json.metadata.static,
          !.blocks = [k \in {<<b.x, b.y, b.z>> : b \in json.blocks} |->
                        BlockFromJSON(CHOOSE b \in json.blocks :
                                        <<b.x, b.y, b.z>> = k)],
          !.entities = [i \in {e.id : e \in json.entities} |->
                          EntityFromJSON(CHOOSE e \in json.entities :
                                           e.id = i)]]),
   id |-> json.id]

\* ------------------------------------------------------------------------
\* WorldManager: chunk streaming and entities
\* ------------------------------------------------------------------------
viewDistance == 3

updateView(m, x, y) == [m EXCEPT !.view = <<x, y>>]

loadChunk(m, chunkX, chunkY, rnd) ==
  LET cid == <<chunkX, chunkY>>
      chunk == generateTerrain(NewChunk(m.now), cid, rnd, m.now)
  IN Published([m EXCEPT !.chunks = MapSet(@, cid, chunk)],
               "chunk:loaded", [chunkId |-> cid])

saveChunk(m, cid) ==
  LET data == ChunkToJSON(m.chunks[cid], cid)
      m1 == [m EXCEPT !.chunks[cid] = markClean(@)]
  IN Published(m1, "chunk:saved",
               [chunkId |-> cid, data |-> data,
                loaded |-> cid \in DOMAIN m1.chunks,
                dirty |-> m1.chunks[cid].dirty])

unloadChunkNoSave(m, cid) ==
  IF cid \notin DOMAIN m.chunks
    THEN m
    ELSE LET m2 == [m EXCEPT !.chunks = MapDelete(@, cid)]
         IN Published(m2, "chunk:unloaded",
                      [chunkId |-> cid, loaded |-> cid \in DOMAIN m2.chunks])

unloadChunk(m, cid) ==
  IF cid \notin DOMAIN m.chunks
    THEN m
    ELSE LET m1 == IF m.chunks[cid].dirty THEN saveChunk(m, cid) ELSE m
             m2 == [m1 EXCEPT !.chunks = MapDelete(@, cid)]
         IN Published(m2, "chunk:unloaded",
                      [chunkId |-> cid, loaded |-> cid \in DOMAIN m2.chunks])

\* the ids visited by the two nested loops, in loop order
Window(chunkX, chunkY) ==
  LET n == 2 * viewDistance + 1
  IN [i \in 1..(n * n) |->
        <<chunkX - viewDistance + (i - 1) \div n,
          chunkY - viewDistance + ((i - 1) % n)>>]

\* the calls loadChunk(cx, cy) made by the loop, one for each id of the
\* window that is not loaded, in loop order
LoadMissing(m, ids, rnd) ==
  LET Missing(c) == c \notin DOMAIN m.chunks
      missing == SelectSeq(ids, Missing)
      Loaded(c) == loadChunk(m, c[1], c[2], rnd)
  IN [m EXCEPT
        !.chunks = [c \in DOMAIN m.chunks \cup Range(missing) |->
                      IF Missing(c) THEN Loaded(c).chunks[c] ELSE m.chunks[c]],
        !.events = @ \o [i \in 1..Len(missing) |->
                           Loaded(missing[i]).events[Len(m.events) + 1]],
        !.payloads = @ \o [i \in 1..Len(missing) |->
                             Loaded(missing[i]).payloads[Len(m.payloads) + 1]]]

\* ids as a sequence in lexicographic order
Ordered(ids) ==
  LET Less(c, d) == c[1] < d[1] \/ (c[1] = d[1] /\ c[2] < d[2])
  IN [i \in 1..Cardinality(ids) |->
        CHOOSE c \in ids : Cardinality({d \in ids : Less(d, c)}) = i - 1]

\* the calls unloadChunk(chunkId) made by the loop over activeChunks, which
\* is kept as a set: the calls do not depend on each other and are taken
\* in the order of Ordered
UnloadAll(m, ids) ==
  LET order == Ordered(ids \cap DOMAIN m.chunks)
      Unloaded(c) == unloadChunk(m, c)
      Emitted(c) == SubSeq(Unloaded(c).events, Len(m.events) + 1,
                         Len(Unloaded(c).events))
      steps == [k \in 1..(2 * Len(order)) |->
                  [cid |-> order[(k + 1) \div 2], at |-> 2 - (k % 2)]]
      Happens(s) == s.at > 2 - Len(Emitted(s.cid))
      done == SelectSeq(steps, Happens)
      At(s) == s.at - (2 - Len(Emitted(s.cid)))
  IN [m EXCEPT
        !.chunks = [c \in DOMAIN m.chunks \ Range(order) |-> m.chunks[c]],
        !.events = @ \o [i \in 1..Len(done) |->
                           Unloaded(done[i].cid).events
                             [Len(m.events) + At(done[i])]],
        !.payloads = @ \o [i \in 1..Len(done) |->
                             Unloaded(done[i].cid).payloads
                               [Len(m.payloads) + At(done[i])]]]

updateActiveChunks(m, rnd) ==
  LET ids == Window(m.view[1] \div SIZE, m.view[2] \div SIZE)
      newActiveChunks == Range(ids)
      m1 == LoadMissing(m, ids, rnd)
      m2 == UnloadAll(m1, m.active \ newActiveChunks)
  IN [m2 EXCEPT !.active = newActiveChunks]

EntityChunk(e) == ChunkIdAt(e.x \div 1000, e.y \div 1000)

addEntity(m, e) ==
  LET cid == EntityChunk(e)
  IN IF cid \in DOMAIN m.chunks
       THEN LET r == ChunkAddEntity(m.chunks[cid], e, m.now)
            IN IF r.threw
                 THEN [m EXCEPT !.threw = TRUE]
                 ELSE Published([m EXCEPT !.chunks[cid] = r.chunk],
                                "entity:added", e.id)
       ELSE [m EXCEPT !.global = MapSet(@, e.id, e)]

onUpdate(m, deltaTime) ==
  [m EXCEPT !.chunks =
     [cid \in DOMAIN m.chunks |->
        IF cid \in m.active
          THEN [m.chunks[cid] EXCEPT !.entities =
                  [i \in DOMAIN @ |->
                     updatePhysics(updateAnimation(@[i], deltaTime),
                                   deltaTime)]]
          ELSE m.chunks[cid]]]

\* ------------------------------------------------------------------------
\* The world on its own: chunk streaming, entities and physics
\* ------------------------------------------------------------------------
MaxDrift == 1

Views == {<<0, 0>>, <<112, 0>>}
StreamIds == {<<0, 0>>}
Rnd == [sand : BOOLEAN, tree : BOOLEAN]

\* const e = new Entity(id, x, y, 0, type, {movable}); e.velocity.x = vx
\* (an id is a tuple of the parts of the id string)
Made(id, x, y, type, movable, vx) ==
  [NewEntity(id, x, y, 0, type,
             [EmptyEntityProps EXCEPT !.keys = {"movable"},
                                      !.movable = movable])
     EXCEPT !.velocity = <<vx, 0, 0>>]

Entities ==
  {Made(<<"walker">>, 15500, 500, "npc", TRUE, 5000),
   Made(<<"chest">>, 500, 500, "chest", FALSE, 0),
   Made(<<"rock">>, 800500, 500, "rock", FALSE, 0)}

\* worldManager.getChunkAt(x, y, true)
GetChunkAt(c) ==
  Commit(getChunkAtCreate(M, c[1], c[2]), Call("getChunkAt", c))

\* eventBus.emit('camera:moved', {x, y})
UpdateView(c) == Commit(updateView(M, c[1], c[2]), Call("updateView", c))

UpdateActiveChunks(rnd) ==
  Commit(updateActiveChunks(M, rnd), Call("updateActiveChunks", <<>>))

LoadChunk(cid, rnd) ==
  Commit(loadChunk(M, cid[1], cid[2], rnd), Call("loadChunk", cid))

UnloadChunk(cid) == Commit(unloadChunk(M, cid), Call("unloadChunk", cid))

SaveChunk(cid) ==
  /\ cid \in DOMAIN chunks
  /\ Commit(saveChunk(M, cid), Call("saveChunk", cid))

AddEntity(e) == Commit(addEntity(M, e), Call("addEntity", e.id))

\* how far, in whole tiles, an entity of a chunk is from the chunk's bounds
Drift(cid, e) ==
  LET tx == e.x \div 1000
  IN Max({0, cid[1] * SIZE - tx, tx - ((cid[1] + 1) * SIZE - 1)})

\* worldManager.onUpdate(deltaTime) with the largest step the loop passes
OnUpdate ==
  LET m == onUpdate(M, maxDeltaTime \div 100)
  IN /\ \A cid \in DOMAIN m.chunks :
          \A i \in DOMAIN m.chunks[cid].entities :
            Drift(cid, m.chunks[cid].entities[i]) <= MaxDrift
     /\ Commit(m, Call("onUpdate", <<>>))

\* blocks are placed with setBlockAt, the call by which placeBlock and
\* placeBlockExact store a block
NextChunks ==
  \/ CreateWorld
  \/ \E c \in DeepCols : GetChunkAt(c)
  \/ \E c \in DeepCols : SetBlockAt(c[1], c[2], 0, "grass")
  \/ \E c \in Views : UpdateView(c)
  \/ \E rnd \in Rnd : UpdateActiveChunks(rnd)
  \/ \E cid \in StreamIds, rnd \in Rnd : LoadChunk(cid, rnd)
  \/ \E cid \in StreamIds : UnloadChunk(cid)
  \/ \E cid \in StreamIds : SaveChunk(cid)

SpecChunks == Init /\ [][NextChunks]_vars

\* entities added to a world whose origin chunk is loaded, and frames
NextEntities ==
  \/ CreateWorld
  \/ \E cid \in StreamIds, rnd \in Rnd : LoadChunk(cid, rnd)
  \/ \E cid \in StreamIds : UnloadChunk(cid)
  \/ \E e \in Entities : AddEntity(e)
  \/ OnUpdate

SpecEntities == Init /\ [][NextEntities]_vars

\* C21: every chunk id in activeChunks is a key of the loaded-chunk map,
\* after any sequence of createWorld, getChunkAt with createIfMissing,
\* updateActiveChunks, loadChunk, unloadChunk and block placement.
C21_ActiveChunksLoaded == activeChunks \subseteq DOMAIN chunks

\* the chunk and tile events of the last call that carry chunk id cid
EventsOf(name, cid) ==
  {j \in DOMAIN payloads : /\ payloads[j].name = name
                           /\ payloads[j].key.chunkId = cid}

\* C22: a dirty chunk that leaves the loaded set through unloadChunk (called
\* directly or by updateActiveChunks) has chunk:saved published with its
\* serialized contents while it is still loaded and before chunk:unloaded,
\* and is clean when it is removed; a clean chunk is unloaded with
\* chunk:unloaded alone.
C22_SaveBeforeUnload ==
  [][lastCall'.op \in {"unloadChunk", "updateActiveChunks"}
       => \A cid \in DOMAIN chunks \ DOMAIN chunks' :
            /\ \E j \in EventsOf("chunk:unloaded", cid)' :
                 /\ ~payloads'[j].key.loaded
                 /\ chunks[cid].dirty
                      => \E i \in EventsOf("chunk:saved", cid)' :
                           /\ i < j
                           /\ payloads'[i].key.data
                                = ChunkToJSON(chunks[cid], cid)
                           /\ payloads'[i].key.loaded
                           /\ ~payloads'[i].key.dirty
            /\ ~chunks[cid].dirty => EventsOf("chunk:saved", cid)' = {}]_vars

C22_Witness ==
  /\ lastCall.op = "unloadChunk"
  /\ events = <<"chunk:saved", "chunk:unloaded">>
  /\ payloads[1].key.data.blocks # {}
  /\ lastCall.arg \notin DOMAIN chunks

\* C23: every entity held in a chunk's entity map has a position inside
\* that chunk's bounds, also after WorldManager.onUpdate has applied
\* physics, and an entity added at a position with no loaded chunk is held
\* in the global overflow set.
C23_EntitiesInsideTheirChunk ==
  /\ \A cid \in DOMAIN chunks :
       \A i \in DOMAIN chunks[cid].entities :
         containsPosition(cid, chunks[cid].entities[i].x,
                          chunks[cid].entities[i].y)
  /\ \A i \in DOMAIN globalEntities :
       EntityChunk(globalEntities[i]) \notin DOMAIN chunks
         => globalEntities[i].id = i

\* ------------------------------------------------------------------------
\* Serialization: a block, an entity or a chunk is written with toJSON and
\* read back with fromJSON
\* ------------------------------------------------------------------------
BlockValues ==
  {NewBlock(c[1], c[2], z, t, p) :
     c \in Cols, z \in 0..1, t \in BlockTypes,
     p \in {EmptyProps, DefaultProps(1),
            [EmptyProps EXCEPT !.keys = {"solid", "interactable"},
                               !.interactable = TRUE]}}

EntityValues ==
  {Made(<<"walker">>, 15500, 500, "npc", mv, vx) : mv \in BOOLEAN,
                                                     vx \in {0, 5000}}
    \cup {NewEntity(<<"chest">>, 500, 500, 0, "chest",
                    [EmptyEntityProps EXCEPT !.keys = ks, !.health = 50,
                                             !.maxHealth = 50, !.width = 2]) :
            ks \in SUBSET {"health", "maxHealth", "width"}}

\* chunks as the world makes them: new, generated, with a block set or an
\* entity added by the host
ChunkValues ==
  {[id |-> <<0, 0>>, chunk |-> NewChunk(0)]}
    \cup {[id |-> <<0, 0>>,
           chunk |-> generateTerrain(NewChunk(0), <<0, 0>>, rnd, 1)] :
            rnd \in Rnd}
    \cup {[id |-> <<1, 0>>,
           chunk |-> ChunkSetBlock(NewChunk(0), 0, 0, z,
                                   NewBlock(16, 0, z, "stone", EmptyProps),
                                   1).chunk] : z \in 0..1}
    \cup {[id |-> <<0, 0>>,
           chunk |-> ChunkAddEntity(NewChunk(0), e, 1).chunk] :
            e \in EntityValues}

Values ==
  {[of |-> "block", value |-> b] : b \in BlockValues}
    \cup {[of |-> "entity", value |-> e] : e \in EntityValues}
    \cup {[of |-> "chunk", value |-> c] : c \in ChunkValues}

InitJSON ==
  /\ InitEngine
  /\ seq = NoSeq
  /\ calls = NoCalls
  /\ probe \in {[of |-> v.of, stage |-> "value", value |-> v.value,
                 json |-> <<>>, back |-> <<>>] : v \in Values}

Damages == {50, 100}

\* entity.takeDamage(damage), on the entity itself or on one held by a chunk
TakeDamage(damage) ==
  /\ probe.stage = "value"
  /\ \/ /\ probe.of = "entity"
        /\ probe.value.health > 0
        /\ probe' = [probe EXCEPT !.value = takeDamage(@, damage)]
     \/ /\ probe.of = "chunk"
        /\ \E i \in DOMAIN probe.value.chunk.entities :
             /\ probe.value.chunk.entities[i].health > 0
             /\ probe' = [probe EXCEPT !.value.chunk.entities[i] =
                                         takeDamage(@, damage)]
  /\ UNCHANGED <<worldVars, bus, busLog, engine, engineLog, input, presses,
                 assets>>

\* x.toJSON()
Serialize ==
  /\ probe.stage = "value"
  /\ probe' = [probe EXCEPT
                 !.stage = "json",
                 !.json = CASE probe.of = "block" -> toJSON(probe.value)
                            [] probe.of = "entity" -> EntityToJSON(probe.value)
                            [] probe.of = "chunk" ->
                                 ChunkToJSON(probe.value.chunk, probe.value.id)]
  /\ UNCHANGED <<worldVars, bus, busLog, engine, engineLog, input, presses,
                 assets>>

\* X.fromJSON(json)
Deserialize ==
  /\ probe.stage = "json"
  /\ probe' = [probe EXCEPT
                 !.stage = "back",
                 !.back = CASE probe.of = "block" -> BlockFromJSON(probe.json)
                            [] probe.of = "entity" -> EntityFromJSON(probe.json)
                            [] probe.of = "chunk" -> ChunkFromJSON(probe.json)]
  /\ UNCHANGED <<worldVars, bus, busLog, engine, engineLog, input, presses,
                 assets>>

NextJSON ==
  \/ \E damage \in Damages : TakeDamage(damage)
  \/ Serialize
  \/ Deserialize

SpecJSON == InitJSON /\ [][NextJSON]_vars

\* the type, the coordinates and the declared properties of a value: what
\* toJSON writes
Declared(of, v) ==
  CASE of = "block" -> toJSON(v)
    [] of = "entity" -> EntityToJSON(v)
    [] of = "chunk" -> ChunkToJSON(v.chunk, v.id)

\* C24: fromJSON(toJSON(x)) equals x on the type, the coordinates and every
\* declared property, for a Block, for an Entity (health, maxHealth, width,
\* height, active, velocity, acceleration and animationFrame included, for
\* any values of these such as health 0) and for a Chunk (id, version,
\* metadata and the full block and entity sets).
C24_RoundTrip ==
  probe.stage = "back"
    => Declared(probe.of, probe.back) = Declared(probe.of, probe.value)

\* ------------------------------------------------------------------------
\* InputManager and the handlers of its events
\* ------------------------------------------------------------------------
\* StateManager.handleKeyPress(key, event); meta is event.metaKey ||
\* event.ctrlKey
handleKeyPress(m, key, meta, shift) ==
  IF meta /\ key = "KeyZ"
    THEN IF shift THEN redo(m) ELSE undo([m EXCEPT !.undos = @ + 1])
    ELSE CASE key \in {"Digit1", "KeyS"} -> setTool(m, "select")
           [] key \in {"Digit2", "KeyP"} -> setTool(m, "place")
           [] key \in {"Digit3", "KeyX"} -> setTool(m, "delete")
           [] OTHER -> m

\* the result of an InputManager handler: the engine state and the keys
\* and buttons that are down
Io(m, inp) == [m |-> m, input |-> inp]

handleKeyDownNoRepeat(m, inp, key, meta, shift) ==
  Io(IF key \notin inp.keys
       THEN Handled(handleKeyPress(Published(m, "input:keydown", key),
                                   key, meta, shift))
       ELSE m,
     [inp EXCEPT !.keys = @ \cup {key}])

handleKeyDown(m, inp, key, meta, shift) ==
  Io(IF key \notin inp.keys \/ meta
       THEN Handled(handleKeyPress(Published(m, "input:keydown", key),
                                   key, meta, shift))
       ELSE m,
     [inp EXCEPT !.keys = @ \cup {key}])

handleKeyUp(m, inp, key) ==
  Io(IF key \in inp.keys THEN Published(m, "input:keyup", key) ELSE m,
     [inp EXCEPT !.keys = @ \ {key}])

\* the handlers of input:mousedown, WorldManager's first
OnMouseDown(m, button, tileX, tileY) ==
  LET m1 == IF button = 0 THEN Handled(handleClick(m, tileX, tileY)) ELSE m
  IN CASE button = 0 -> Handled(handleTileClick(m1, tileX, tileY))
       [] button = 2 -> Handled(handleTileRightClick(m1, tileX, tileY))
       [] OTHER -> m1

handleMouseDown(m, inp, button, tileX, tileY) ==
  Io(IF button \notin inp.buttons
       THEN OnMouseDown(Published(m, "input:mousedown", button),
                        button, tileX, tileY)
       ELSE m,
     [inp EXCEPT !.buttons = @ \cup {button}])

handleMouseUp(m, inp, button) ==
  Io(IF button \in inp.buttons THEN Published(m, "input:mouseup", button) ELSE m,
     [inp EXCEPT !.buttons = @ \ {button}])

CommitInput(io, call) ==
  /\ CommitCore(io.m, call)
  /\ input' = io.input
  /\ UNCHANGED <<seq, calls, presses, assets, probe>>

\* a mousedown DOM event at a world position given in half tiles
MouseDown(button, hx, hy) ==
  CommitInput(handleMouseDown(M, input, button, hx \div 2, hy \div 2),
              Call("mousedown", <<button, hx \div 2, hy \div 2>>))

MouseUp(button) ==
  CommitInput(handleMouseUp(M, input, button), Call("mouseup", <<button>>))

\* a keydown DOM event
KeyDown(key, meta, shift) ==
  CommitInput(handleKeyDown(M, input, key, meta, shift),
              Call("keydown", <<key, meta, shift>>))

KeyUp(key) == CommitInput(handleKeyUp(M, input, key), Call("keyup", <<key>>))

Buttons == {0, 2}

\* SpecInput: the mouse and the undo/redo keys on a running engine; the
\* tool is chosen with setTool
\* a click may add the entry that follows a stack of MaxRecorded blocks, and
\* no block is recorded above such a stack
Low ==
  /\ Len(history') <= MaxRecorded + 1
  /\ \A k \in DOMAIN worldState' : k[3] < MaxRecorded

NextInput ==
  \/ \E b \in Buttons, hx \in HalfTiles :
       MouseDown(b, hx, 0) /\ Low
  \/ \E b \in Buttons : MouseUp(b)
  \/ \E meta \in BOOLEAN, shift \in BOOLEAN : KeyDown("KeyZ", meta, shift)
  \/ KeyUp("KeyZ")
  \/ \E t \in Tools : SetTool(t)

SpecInput == Init /\ [][NextInput]_vars

\* ------------------------------------------------------------------------
\* Clicks
\* ------------------------------------------------------------------------
\* the step delivers input:mousedown for button b
Click(b) ==
  /\ lastCall'.op = "mousedown"
  /\ lastCall'.arg[1] = b
  /\ b \notin input.buttons

\* the layer of the topmost block of the clicked cell, -1 for an empty cell
Top == WorldGetHighestBlockZ(M, lastCall'.arg[2], lastCall'.arg[3])

\* the tile events the step published, as name and payload
Tile(name, key) == [name |-> name, key |-> key]

Untouched ==
  UNCHANGED <<chunks, activeChunks, worldState, history, historyIndex,
              isUndoingOrRedoing, currentTool>>

\* C25: with the delete tool, a left click on a cell whose topmost block is
\* at layer h publishes exactly one tile event, tile:requestDelete
\* {x, y, z: h}; a right click on such a cell does the same whatever the
\* tool; a right click on an empty cell publishes no event and changes no
\* state.
C25_ClickDeletesTopmost ==
  [][/\ (Click(0) /\ currentTool = "delete") \/ Click(2)
          => (Top >= 0
                => payloads' = <<Tile("tile:requestDelete",
                                      <<lastCall'.arg[2], lastCall'.arg[3],
                                        Top>>)>>)
     /\ Click(2) /\ Top = -1
          => events' = <<"input:mousedown">> /\ payloads' = <<>> /\ Untouched
    ]_vars

C25_Witness ==
  /\ lastCall.op = "mousedown"
  /\ currentTool = "place"
  /\ payloads = <<Tile("tile:requestDelete",
                       <<lastCall.arg[2], lastCall.arg[3], 1>>)>>
  /\ Has(events, "block:removed")
  /\ WorldGetHighestBlockZ(M, lastCall.arg[2], lastCall.arg[3]) = 0

\* C26: with the select tool, a left click on an empty cell publishes
\* tile:selected {x, y} and neither tile:requestPlace nor
\* tile:requestDelete; the world and the history are unchanged.
C26_SelectOnlySelects ==
  [][Click(0) /\ currentTool = "select" /\ Top = -1
       => /\ payloads' = <<Tile("tile:selected",
                                <<lastCall'.arg[2], lastCall'.arg[3]>>)>>
          /\ Untouched]_vars

\* C28: a left click that leads to a placement runs the whole chain inside
\* the publish of input:mousedown: tile:requestPlace, the world mutation,
\* block:added and the recording in the history, in this order; when the
\* step is over the block is in the world and in the StateManager mirror,
\* and the history has exactly one new entry, the placement, under the
\* cursor.
C28_PlacementChain ==
  [][Click(0) /\ Has(events', "block:added")
       => LET x == lastCall'.arg[2]
              y == lastCall'.arg[3]
              z == Top + 1
          IN /\ events' = <<"input:mousedown", "tile:requestPlace",
                            "block:changed", "block:added">>
             /\ payloads' = <<Tile("tile:requestPlace", <<x, y, z>>)>>
             /\ getBlockAt(M, x, y, z) = NoBlock
             /\ <<x, y, z>> \in WorldKeys'
             /\ <<x, y, z>> \in DOMAIN worldState'
             /\ Len(history') = historyIndex + 2
             /\ \A i \in 1..(historyIndex + 1) : history'[i] = history[i]
             /\ history'[Len(history')].type = "block:placed"
             /\ history'[Len(history')].data.x = x
             /\ history'[Len(history')].data.y = y
             /\ history'[Len(history')].data.z = z
             /\ historyIndex' = Len(history') - 1
             /\ ~isUndoingOrRedoing']_vars

C28_Witness ==
  /\ lastCall.op = "mousedown"
  /\ lastCall.arg[1] = 0
  /\ Has(events, "block:added")
  /\ lastCall.idx < lastCall.len - 1
  /\ Len(history) = lastCall.idx + 2
  /\ <<lastCall.arg[2], lastCall.arg[3], 1>> \in WorldKeys

\* ------------------------------------------------------------------------
\* A run of placements by clicks followed by Cmd/Ctrl+Z presses
\* ------------------------------------------------------------------------
\* a left click on the origin cell that places a block
PlaceClick ==
  LET io == handleMouseDown(M, input, 0, 0, 0)
  IN /\ presses.phase \in {"none", "placing"}
     /\ presses.placed < MaxSeq
     /\ Has(io.m.events, "block:added")
     /\ CommitCore(io.m, Call("mousedown", <<0, 0, 0>>))
     /\ input' = io.input
     /\ presses' = [presses EXCEPT !.phase = "placing", !.placed = @ + 1]
     /\ UNCHANGED <<seq, calls, assets, probe>>

ReleaseClick ==
  /\ presses.phase = "placing"
  /\ 0 \in input.buttons
  /\ MouseUp(0)

\* keydown of Z with Cmd or Ctrl down; the key may still be down from the
\* press before
PressUndo ==
  LET io == handleKeyDown(M, input, "KeyZ", TRUE, FALSE)
  IN /\ presses.phase \in {"placing", "undoing"}
     /\ 0 \notin input.buttons
     /\ presses.pressed < presses.placed
     /\ CommitCore(io.m, Call("keydown", <<"KeyZ", TRUE, FALSE>>))
     /\ input' = io.input
     /\ presses' = [presses EXCEPT
                      !.phase = "undoing",
                      !.pressed = @ + 1,
                      !.undos = @ + io.m.undos,
                      !.held = @ + IF "KeyZ" \in input.keys THEN 1 ELSE 0]
     /\ UNCHANGED <<seq, calls, assets, probe>>

ReleaseKey ==
  /\ presses.phase = "undoing"
  /\ "KeyZ" \in input.keys
  /\ KeyUp("KeyZ")

NextKeys ==
  \/ PlaceClick
  \/ ReleaseClick
  \/ PressUndo
  \/ ReleaseKey

SpecKeys == Init /\ [][NextKeys]_vars

\* C27: after N successful placements (N in 1..50) followed by N Cmd/Ctrl+Z
\* key presses, presses that arrive while Z is still down included, undo()
\* has been invoked exactly N times and getUndoRedoState() reports
\* historyLength N, canUndo false and canRedo true.
C27_RapidUndo ==
  /\ presses.phase = "undoing"
  /\ presses.placed \in 1..maxHistory
  /\ presses.pressed = presses.placed
  => /\ presses.undos = presses.placed
     /\ Len(history) = presses.placed
     /\ ~CanUndo
     /\ CanRedo

C27_Witness ==
  /\ presses.phase = "undoing"
  /\ presses.placed = maxHistory
  /\ presses.pressed = presses.placed
  /\ presses.held = presses.pressed - 1
  /\ presses.undos = maxHistory
  /\ WorldKeys = {}

\* ------------------------------------------------------------------------
\* AssetManager: loads in flight, their completion, unload and destroy
\* ------------------------------------------------------------------------
MaxLoads == 3

AssetKeys == {"tiles", "player", "music"}

\* the manager as a call finds it
A(op) == [assets EXCEPT !.op = op, !.events = <<>>]

\* load(key, url, type) up to the return of the promise
load(a, key) ==
  IF key \in a.assets \/ key \in a.loading
    THEN a
    ELSE [a EXCEPT !.loading = @ \cup {key}, !.totalAssets = @ + 1]

\* the .then callback of load: loadAsset has resolved
loaded(a, key) ==
  [a EXCEPT !.assets = @ \cup {key},
            !.loading = @ \ {key},
            !.loadedAssets = @ + 1,
            !.events = Append(@, "asset:loaded")]

\* the .catch callback of load: loadAsset has rejected
failed(a, key) ==
  [a EXCEPT !.loading = @ \ {key}, !.events = Append(@, "asset:error")]

unload(a, key) ==
  IF key \in a.assets
    THEN [a EXCEPT !.assets = @ \ {key},
                   !.loadedAssets = @ - 1,
                   !.events = Append(@, "asset:unloaded")]
    ELSE a

unloadAll(a) ==
  [a EXCEPT !.assets = {},
            !.events = @ \o [i \in 1..Cardinality(a.assets) |->
                               "asset:unloaded"],
            !.totalAssets = 0,
            !.loadedAssets = 0]

\* AssetManager.onDestroy, run by destroy()
AssetsOnDestroy(a) == [unloadAll(a) EXCEPT !.destroyed = TRUE]

CommitAssets(a) ==
  /\ assets' = a
  /\ UNCHANGED <<worldVars, bus, busLog, engine, engineLog, input, presses,
                 probe>>

Load(key) ==
  /\ assets.totalAssets < MaxLoads
  /\ CommitAssets(load(A("load"), key))

\* the host settles the promise of a load in flight
Resolve(key) ==
  /\ key \in assets.loading
  /\ CommitAssets(loaded(A("resolve"), key))

Reject(key) ==
  /\ key \in assets.loading
  /\ CommitAssets(failed(A("reject"), key))

Unload(key) == CommitAssets(unload(A("unload"), key))

DestroyAssets ==
  /\ ~assets.destroyed
  /\ CommitAssets(AssetsOnDestroy(A("destroy")))

NextAssets ==
  \/ \E key \in AssetKeys : Load(key)
  \/ \E key \in AssetKeys : Resolve(key)
  \/ \E key \in AssetKeys : Reject(key)
  \/ \E key \in AssetKeys : Unload(key)
  \/ DestroyAssets

SpecAssets == Init /\ [][NextAssets]_vars

\* C29: when the AssetManager has been destroyed while a load is in flight,
\* the completion of that load adds nothing to the asset cache, leaves
\* loadedAssets as it is and publishes no asset:loaded.
C29_NoCompletionAfterDestroy ==
  [][assets.destroyed /\ assets'.op = "resolve"
       => /\ assets'.assets = assets.assets
          /\ assets'.loadedAssets = assets.loadedAssets
          /\ ~Has(assets'.events, "asset:loaded")]_vars

\* ------------------------------------------------------------------------
\* IsometricRenderer.renderWorld: the order in which the blocks are drawn
\* ------------------------------------------------------------------------
RenderCols == {<<0, 0>>, <<64, 48>>}
RenderLayers == 0..1

\* the renderables pushed for the visible blocks of all chunks
Renderables(m) ==
  {[worldX |-> cid[1] * SIZE + k[1], worldY |-> cid[2] * SIZE + k[2],
    z |-> m.chunks[cid].blocks[k].z] :
     <<cid, k>> \in {p \in UNION {{<<c, j>> : j \in DOMAIN m.chunks[c].blocks} :
                                     c \in DOMAIN m.chunks} :
                      m.chunks[p[1]].blocks[p[2]].visible}}

Depth(r) == r.worldX + r.worldY + r.z * 100

\* the results Array.prototype.sort can give with the comparator
\* depthA - depthB: ascending depth; renderables of equal depth keep the
\* insertion order of the Maps, which is left open here
Sorted(rs) ==
  {s \in [1..Cardinality(rs) -> rs] :
     /\ \A i, j \in DOMAIN s : i # j => s[i] # s[j]
     /\ \A i, j \in DOMAIN s : i < j => Depth(s[i]) <= Depth(s[j])}

\* renderer.renderWorld(worldManager.chunks)
RenderWorld ==
  /\ \E s \in Sorted(Renderables(M)) :
       probe' = [of |-> "render", drawn |-> s]
  /\ UNCHANGED <<worldVars, bus, busLog, engine, engineLog, input, presses,
                 assets>>

NextRender ==
  \/ \E c \in RenderCols, z \in RenderLayers : SetBlockAt(c[1], c[2], z, "grass")
  \/ RenderWorld

SpecRender == Init /\ [][NextRender]_vars

\* C30: in the draw order of renderWorld, a renderable on a lower layer is
\* drawn before every renderable on a higher layer, for all world
\* coordinates, chunks far from the origin included.
C30_LowerLayersFirst ==
  probe.of = "render"
    => \A i, j \in DOMAIN probe.drawn :
         probe.drawn[i].z < probe.drawn[j].z => i < j

\* ------------------------------------------------------------------------
\* IsometricRenderer: where a block and the hover highlight are drawn.
\* Screen positions are in tenths of a pixel, the zoom in tenths.
\* ------------------------------------------------------------------------
tileWidth == 64
tileHeight == 32
tileDepth == 20
initialX == 8
initialY == 8
initialZoom == 12

Canvases == {<<800, 600>>, <<1024, 768>>}
HoverCols == {<<8, 8>>, <<9, 8>>}
HoverLayers == 0..1

worldToIsometric(worldX, worldY, worldZ) ==
  <<(worldX - worldY) * (tileWidth \div 2),
    (worldX + worldY) * (tileHeight \div 2) - worldZ * tileDepth>>

\* the point renderBlock translates the context to before it draws the box
renderBlock(block, worldX, worldY, canvas) ==
  LET baseIso == worldToIsometric(worldX - initialX, worldY - initialY, 0)
      blockHeight == NumOr(block.properties, "height", block.properties.height, 1)
      stackOffset == block.z * blockHeight * tileDepth
  IN <<baseIso[1] * initialZoom + (canvas[1] \div 2) * 10,
       (baseIso[2] - stackOffset) * initialZoom + (canvas[2] \div 2) * 10>>

\* the top corner of the diamond renderHoverHighlight draws for a tile
renderHoverHighlight(tile, canvas) ==
  LET iso == worldToIsometric(tile[1] - initialX, tile[2] - initialY, 0)
  IN <<iso[1] * initialZoom + (canvas[1] \div 2) * 10,
       iso[2] * initialZoom + (canvas[2] \div 2) * 10>>

\* StateManager.updateHoveredTile; the host's tile:hover handler hands the
\* tile to renderer.setHoveredTile
UpdateHoveredTile(tile, canvas) ==
  /\ ~(probe.of = "hover" /\ probe.tile = tile /\ probe.canvas = canvas)
  /\ probe' = [of |-> "hover", tile |-> tile, canvas |-> canvas,
               drawn |-> FALSE, at |-> <<0, 0>>]
  /\ UNCHANGED <<worldVars, bus, busLog, engine, engineLog, input, presses,
                 assets>>

\* renderWorld with a hovered tile: the highlight is drawn
RenderHover ==
  /\ probe.of = "hover"
  /\ ~probe.drawn
  /\ probe' = [probe EXCEPT !.drawn = TRUE,
                            !.at = renderHoverHighlight(probe.tile, probe.canvas)]
  /\ UNCHANGED <<worldVars, bus, busLog, engine, engineLog, input, presses,
                 assets>>

NextHover ==
  \/ \E c \in HoverCols, z \in HoverLayers : SetBlockAt(c[1], c[2], z, "grass")
  \/ \E c \in HoverCols, canvas \in Canvases : UpdateHoveredTile(c, canvas)
  \/ RenderHover

SpecHover == Init /\ [][NextHover]_vars

\* C31: when the highlight of a hovered tile is drawn and the topmost
\* occupied layer of the tile's column is h >= 0, the highlight is at the
\* screen position of the block at layer h (it carries that block's
\* vertical offset); over an empty column it is at the ground position.
C31_HighlightAtTopLayer ==
  [][(probe'.of = "hover" /\ probe'.drawn /\ probe.of = "hover" /\ ~probe.drawn)
       => LET x == probe'.tile[1]
              y == probe'.tile[2]
              h == WorldGetHighestBlockZ(M, x, y)
          IN probe'.at =
               IF h >= 0
                 THEN renderBlock(getBlockAt(M, x, y, h), x, y, probe'.canvas)
                 ELSE renderHoverHighlight(probe'.tile, probe'.canvas)]_vars

\* ------------------------------------------------------------------------
\* SpecLoop: the frame loop over modules whose update hooks may throw
\* ------------------------------------------------------------------------
LoopKinds == {"plain", "crashUpdate", "crashFixedUpdate", "crashLateUpdate"}

NextLoop ==
  \/ \E kind \in LoopKinds : RegisterModule(kind)
  \/ Initialize
  \/ Start /\ engine'.frameCount <= MaxFrames
  \/ Stop
  \/ \E id \in 1..(MaxFrames + 1), el \in Elapsed : Frame(id, el)

SpecLoop == Init /\ [][NextLoop]_vars

\* the calls of engine.fixedUpdate a call made: each one enters the first
\* registered module's fixedUpdate, or publishes engine:fixedUpdate when no
\* module is registered
FixedUpdates(mods, l) ==
  IF mods = <<>>
    THEN Cardinality({i \in DOMAIN l.events : l.events[i] = "engine:fixedUpdate"})
    ELSE Cardinality({i \in DOMAIN l.log :
                        l.log[i] = [m |-> mods[1].name, hook |-> "fixedUpdate"]})

\* C32: a frame of the running engine adds min(elapsed, maxDeltaTime) to the
\* accumulator, calls fixedUpdate exactly floor(accumulator / fixedTimeStep)
\* times and ends with 0 <= accumulator < fixedTimeStep; the calls in one
\* frame never exceed floor((maxDeltaTime + fixedTimeStep) / fixedTimeStep).
C32_FixedStepAccumulator ==
  [][(engineLog'.op = "frame" /\ engine.running)
       => LET acc == engine.accumulator + Min(engineLog'.arg, maxDeltaTime)
              n == FixedUpdates(engine.modules, engineLog')
          IN /\ n = acc \div fixedTimeStep
             /\ 0 <= engine'.accumulator
             /\ engine'.accumulator < fixedTimeStep
             /\ n <= (maxDeltaTime + fixedTimeStep) \div fixedTimeStep]_vars

\* C38: while the engine is running exactly one frame callback is pending
\* after every call and every frame, also after a frame in which a module's
\* update, fixedUpdate or lateUpdate hook threw.
C38_RunningHasPendingFrame ==
  engine.running => Cardinality(engine.pending) = 1

\* C33: isUndoingOrRedoing is false whenever no undo() or redo() call is
\* executing: after every call of the StateManager and the WorldManager,
\* and so after every undo() and redo(), whether the replay changed the
\* world, did nothing, or failed inside the handler that applied it.
C33_FlagReset == isUndoingOrRedoing = FALSE

\* an undo whose replay failed on a static chunk has returned
C33_Witness ==
  /\ lastCall.op = "undo"
  /\ caught
  /\ isUndoingOrRedoing = FALSE

\* C34: after any sequence of bus-driven placements and removals, undo,
\* redo and createWorld, the keys of StateManager.worldState.blocks are the
\* world coordinates at which the world holds a block, and the two
\* getHighestBlockZ agree on every column.
C34_MirrorConsistency ==
  /\ DOMAIN worldState = WorldKeys
  /\ \A c \in Cols :
       StateGetHighestBlockZ(M, c[1], c[2]) = WorldGetHighestBlockZ(M, c[1], c[2])

\* the occupied layers of the column (x, y) of the world
ColumnLayers(x, y) == {k[3] : k \in {j \in WorldKeys : j[1] = x /\ j[2] = y}}

\* C35: in a world that starts empty and is changed only by left clicks,
\* right clicks (with any tool) and undo/redo, the occupied layers of every
\* column are exactly 0..h for some h >= -1.
C35_GapFreeColumns ==
  \A c \in Cols :
    ColumnLayers(c[1], c[2]) = 0..WorldGetHighestBlockZ(M, c[1], c[2])

\* an undo key press has put back the upper block of a stack of two, which
\* a click had removed
C35_Witness ==
  /\ lastCall.op = "keydown"
  /\ Has(events, "block:added")
  /\ Len(history) = 3
  /\ historyIndex = 1
  /\ ColumnLayers(0, 0) = {0, 1}

\* ------------------------------------------------------------------------
\* SpecLive: the bus with handlers that subscribe and unsubscribe regular
\* handlers of the event being published
\* ------------------------------------------------------------------------
LiveCallbacks == {"plain", "adder", "swapper"}

NextLive ==
  \/ \E e \in EventNames, h \in LiveCallbacks : On(e, h)
  \/ \E e \in EventNames, h \in {"plain", "resub"} : Once(e, h)
  \/ \E e \in EventNames, h \in LiveCallbacks : Off(e, h)
  \/ \E e \in EventNames : Emit(e)

SpecLive == Init /\ [][NextLive]_vars

\* C39: an emit invokes as regular handlers only handlers that were
\* subscribed with on when the emit began: a regular handler subscribed by
\* a handler running during the emit is not invoked by that emit, whether
\* or not handlers were unsubscribed during it.
C39_PublishSnapshot ==
  [][busLog'.op = "emit"
       => \A i \in DOMAIN busLog'.delivered :
            busLog'.delivered[i].kind = "on"
              => busLog'.delivered[i].h \in Range(bus.events[busLog'.event])]_vars

\* ------------------------------------------------------------------------
\* SpecAsync: start() suspended at its awaits while other calls are made.
\* From the first start() of a run to the moment no start() is suspended,
\* the log gathers what the calls of the run did, and arg counts the
\* start() invocations of the run.
\* ------------------------------------------------------------------------
MaxStarts == 2
AsyncKinds == {"plain", "startFails"}

CommitAsync(x, op) ==
  LET run == engine.starts # <<>>
      prev == IF run THEN engineLog ELSE [NoEngineLog EXCEPT !.arg = 0]
  IN /\ engine' = x.eng
     /\ bus' = x.bus
     /\ engineLog' = [op |-> op,
                      arg |-> prev.arg + (IF op = "startBegin" THEN 1 ELSE 0),
                      log |-> prev.log \o x.log,
                      events |-> prev.events \o x.events,
                      threw |-> prev.threw \/ x.threw,
                      failed |-> IF x.failed # 0 THEN x.failed ELSE prev.failed]
     /\ UNCHANGED <<worldVars, hostVars, busLog>>

\* engine.start(), not awaited
BeginStart ==
  /\ engine.starts # <<>> => engineLog.arg < MaxStarts
  /\ engine.nextId <= MaxFrames
  /\ CommitAsync(StartBegin(X(engine, bus)), "startBegin")

\* the promise a suspended start() awaits is settled
ResumeStart(k) ==
  /\ k \in DOMAIN engine.starts
  /\ CommitAsync(StartResume(X(engine, bus), k), "startResume")

\* await engine.destroy() while a start() is suspended
DestroyDuringStart ==
  /\ engine.starts # <<>>
  /\ ~Has(engineLog.events, "engine:destroyed")
  /\ CommitAsync(EngineDestroy(X(engine, bus)), "destroy")

Settled == engine.starts = <<>>

NextAsync ==
  \/ \E kind \in AsyncKinds : RegisterModule(kind) /\ Settled
  \/ Initialize /\ Settled
  \/ Stop /\ Settled
  \/ BeginStart
  \/ \E k \in 1..MaxStarts : ResumeStart(k)
  \/ DestroyDuringStart

SpecAsync == Init /\ [][NextAsync]_vars

AsyncOps == {"startBegin", "startResume", "destroy"}

\* C36: when start() was invoked a second time while the first invocation
\* was awaiting a module's start, and both invocations have completed
\* without a failure, each module's start hook has run exactly once,
\* engine:started was published once and at most one frame callback is
\* pending.
C36_SingleLoopUnderOverlappingStarts ==
  (/\ Settled
   /\ engineLog.op \in AsyncOps
   /\ engineLog.arg = 2
   /\ ~engineLog.threw
   /\ ~Has(engineLog.events, "engine:destroyed"))
    => /\ \A i \in DOMAIN engine.modules :
            Count(engineLog.log,
                  [m |-> engine.modules[i].name, hook |-> "onStart"]) = 1
       /\ Count(engineLog.events, "engine:started") = 1
       /\ Cardinality(engine.pending) <= 1

\* C37: when destroy() was called while the only start() was suspended at
\* a module's start (running still false), then once both have completed
\* the engine is not running and no frame callback is pending.
C37_DestroyRacingStart ==
  (/\ Settled
   /\ engineLog.op \in AsyncOps
   /\ engineLog.arg = 1
   /\ Has(engineLog.events, "engine:destroyed"))
    => ~engine.running /\ engine.pending = {}

\* C40: when start() has rejected because the start of the k-th registered
\* module failed, a stop() called next invokes stop on each of the modules
\* 1..k-1, whose start hooks have run.
C40_RecoverablePartialStart ==
  [][(/\ Settled
      /\ engineLog.op \in AsyncOps
      /\ engineLog.arg = 1
      /\ engineLog.threw
      /\ ~Has(engineLog.events, "engine:destroyed")
      /\ engineLog'.op = "stop")
       => \A i \in 1..(engineLog.failed - 1) :
            Has(engineLog'.log, [m |-> engine.modules[i].name, hook |-> "onStop"])
    ]_vars

====
